---- MODULE Spec2Model ----
(***************************************************************************)
(* Model of github.com/bborbe/collection: the three thread-safe generic    *)
(* set types (set, setEqual, setHashCode) and the channel helpers.          *)
(*                                                                         *)
(* Spec      every public method of a set is one atomic step (each method  *)
(*           runs between mux.Lock and mux.Unlock).                         *)
(* SpecClone a set and the set a Clone or Without of it returned.           *)
(* SpecConc  goroutines executing the methods statement by statement,      *)
(*           synchronised only by the set's mutex.                          *)
(* SpecText  a string Set built by ParseSetFromStrings or                  *)
(*           ParseSetFromString, and its text codec.                        *)
(* SpecSlice a set and a caller that keeps and changes a Slice() result.    *)
(* SpecTrio  the three set types driven by the same Add and Remove calls.  *)
(* SpecDrain the channel helpers: ChannelFnMap, ChannelFnList and          *)
(*           ChannelFnCount on run.CancelOnFirstErrorWait, and StreamList. *)
(* SpecDrainLive  SpecDrain with every goroutine that can step stepping.   *)
(* SpecConcLive   SpecConc with every goroutine that can step stepping.    *)
(* SpecSetEach   Each of a set calling a method of the same set from fn,   *)
(*           beside a second goroutine; SpecSetEachLive adds fairness.     *)
(* SpecIter  the slice functions Each and Map on a cancellable context.    *)
(* SpecIntersect  the slice function Intersect.                            *)
(* SpecRunner     run.CancelOnFirstError on run.Run; SpecRunnerLive adds   *)
(*           fairness.                                                     *)
(***************************************************************************)
EXTENDS Integers, Sequences, FiniteSets, TLC

\* ---------------------------------------------------------------- bounds
NumIds == 2
MaxBatch == 2
MaxText == 3
NumProcs == 2
MaxItems == 2
ChanCap == 1
MaxFuncs == 3
NumCPU == 1

\* ------------------------------------------------------------- universes
Kinds == {"Set", "SetEqual", "SetHashCode"}
Inst == {"orig", "copy"}
Cells == {1, 2}
Chars == {",", " ", "a", "b"}

RECURSIVE SeqsUpTo(_, _)
SeqsUpTo(S, n) ==
  IF n = 0 THEN {<<>>}
  ELSE LET P == SeqsUpTo(S, n - 1)
       IN P \cup {Append(p, x) : p \in {q \in P : Len(q) = n - 1}, x \in S}

Range(s) == {s[k] : k \in 1..Len(s)}

\* Elements of a Set[string]: strings are sequences of characters.
StrElems == {<<"a">>, <<"b">>, <<" ", "a">>}

\* Elements of SetEqual[User] / SetHashCode[User]: the User{ID, Name} of the
\* doc examples; the user with ID 1 exists under two names.
Users ==
  {[id |-> n, name |-> "a"] : n \in 1..NumIds} \cup {[id |-> 1, name |-> "b"]}

\* func (u User) Equal(other User) bool { return u.ID == other.ID }
Equal(u, other) == u.id = other.id

\* func (u User) HashCode() string { return fmt.Sprintf("user-%d", u.ID) }
HashCode(u) == <<"user", u.id>>

Elems(k) == IF k = "Set" THEN StrElems ELSE Users
StrArgLists == SeqsUpTo(StrElems, MaxBatch)
UserArgLists == SeqsUpTo(Users, MaxBatch)
ArgLists(k) == IF k = "Set" THEN StrArgLists ELSE UserArgLists
Texts == SeqsUpTo(Chars, MaxText)

\* ------------------------------------------------------------- Go maps
MapPut(m, k, v) == [x \in (DOMAIN m) \cup {k} |-> IF x = k THEN v ELSE m[x]]
MapDelete(m, k) == [x \in (DOMAIN m) \ {k} |-> m[x]]

\* ------------------------------------------------------------------ set
\* set.data is a map[T]struct{}: the set of its keys.
RECURSIVE setAdd(_, _, _)
setAdd(data, elements, i) ==
  IF i > Len(elements) THEN data
  ELSE setAdd(data \cup {elements[i]}, elements, i + 1)

RECURSIVE setRemove(_, _, _)
setRemove(data, elements, i) ==
  IF i > Len(elements) THEN data
  ELSE setRemove(data \ {elements[i]}, elements, i + 1)

setContains(data, element) == element \in data

RECURSIVE setContainsAll(_, _, _)
setContainsAll(data, elements, i) ==
  IF i > Len(elements) THEN TRUE
  ELSE IF ~(elements[i] \in data) THEN FALSE
  ELSE setContainsAll(data, elements, i + 1)

\* Variant of set.ContainsAny that falls through to true.
RECURSIVE setContainsAnyDefaultTrue(_, _, _)
setContainsAnyDefaultTrue(data, elements, i) ==
  IF i > Len(elements) THEN TRUE
  ELSE IF elements[i] \in data THEN TRUE
  ELSE setContainsAnyDefaultTrue(data, elements, i + 1)

RECURSIVE setContainsAny(_, _, _)
setContainsAny(data, elements, i) ==
  IF i > Len(elements) THEN FALSE
  ELSE IF elements[i] \in data THEN TRUE
  ELSE setContainsAny(data, elements, i + 1)

setLength(data) == Cardinality(data)

\* ------------------------------------------------------------- setEqual
\* setEqual.data is a []T.
\* Variant of contains that compares with == where the code calls Equal.
RECURSIVE containsByValue(_, _, _)
containsByValue(data, element, k) ==
  IF k > Len(data) THEN FALSE
  ELSE IF data[k] = element THEN TRUE
  ELSE containsByValue(data, element, k + 1)

RECURSIVE contains(_, _, _)
contains(data, element, k) ==
  IF k > Len(data) THEN FALSE
  ELSE IF Equal(data[k], element) THEN TRUE
  ELSE contains(data, element, k + 1)

\* Variant of setEqual.Add that stores the new element over the one it equals.
RECURSIVE setEqualAddReplace(_, _, _)
setEqualAddReplace(data, elements, i) ==
  IF i > Len(elements) THEN data
  ELSE IF contains(data, elements[i], 1)
       THEN setEqualAddReplace(
              [k \in 1..Len(data) |->
                 IF Equal(data[k], elements[i]) THEN elements[i] ELSE data[k]],
              elements, i + 1)
       ELSE setEqualAddReplace(Append(data, elements[i]), elements, i + 1)

RECURSIVE setEqualAdd(_, _, _)
setEqualAdd(data, elements, i) ==
  IF i > Len(elements) THEN data
  ELSE IF contains(data, elements[i], 1) THEN setEqualAdd(data, elements, i + 1)
  ELSE setEqualAdd(Append(data, elements[i]), elements, i + 1)

\* Variant of the inner loop of setEqual.Remove that never matches.
shouldRemoveNever(e, elements, j) == FALSE

RECURSIVE shouldRemove(_, _, _)
shouldRemove(e, elements, j) ==
  IF j > Len(elements) THEN FALSE
  ELSE IF Equal(e, elements[j]) THEN TRUE
  ELSE shouldRemove(e, elements, j + 1)

\* Variant of setEqual.Remove with the test inverted: it keeps the matches.
RECURSIVE setEqualRemoveLoopInverted(_, _, _, _)
setEqualRemoveLoopInverted(data, elements, k, result) ==
  IF k > Len(data) THEN result
  ELSE IF ~shouldRemove(data[k], elements, 1)
       THEN setEqualRemoveLoopInverted(data, elements, k + 1, result)
       ELSE setEqualRemoveLoopInverted(data, elements, k + 1,
                                       Append(result, data[k]))

RECURSIVE setEqualRemoveLoop(_, _, _, _)
setEqualRemoveLoop(data, elements, k, result) ==
  IF k > Len(data) THEN result
  ELSE IF shouldRemove(data[k], elements, 1)
       THEN setEqualRemoveLoop(data, elements, k + 1, result)
       ELSE setEqualRemoveLoop(data, elements, k + 1, Append(result, data[k]))

setEqualRemove(data, elements) == setEqualRemoveLoop(data, elements, 1, <<>>)

RECURSIVE setEqualContainsAll(_, _, _)
setEqualContainsAll(data, elements, i) ==
  IF i > Len(elements) THEN TRUE
  ELSE IF ~contains(data, elements[i], 1) THEN FALSE
  ELSE setEqualContainsAll(data, elements, i + 1)

RECURSIVE setEqualContainsAny(_, _, _)
setEqualContainsAny(data, elements, i) ==
  IF i > Len(elements) THEN FALSE
  ELSE IF contains(data, elements[i], 1) THEN TRUE
  ELSE setEqualContainsAny(data, elements, i + 1)

setEqualLength(data) == Len(data)

\* Variant of Copy that fills the new slice back to front.
CopyReversed(values) == [k \in 1..Len(values) |-> values[Len(values) + 1 - k]]

\* Copy: make + append of all values.
Copy(values) == [k \in 1..Len(values) |-> values[k]]

\* ---------------------------------------------------------- setHashCode
\* setHashCode.data is a map[string]T keyed by the element's hash code.
\* Variant of setHashCode.Add that keeps the stored element on a collision.
RECURSIVE setHashCodeAddKeepFirst(_, _, _)
setHashCodeAddKeepFirst(data, elements, i) ==
  IF i > Len(elements) THEN data
  ELSE IF HashCode(elements[i]) \in DOMAIN data
       THEN setHashCodeAddKeepFirst(data, elements, i + 1)
       ELSE setHashCodeAddKeepFirst(
              MapPut(data, HashCode(elements[i]), elements[i]), elements, i + 1)

RECURSIVE setHashCodeAdd(_, _, _)
setHashCodeAdd(data, elements, i) ==
  IF i > Len(elements) THEN data
  ELSE setHashCodeAdd(MapPut(data, HashCode(elements[i]), elements[i]),
                      elements, i + 1)

\* Variant of setHashCode.Remove that deletes nothing.
setHashCodeRemoveNothing(data, element) == data

setHashCodeRemove(data, element) == MapDelete(data, HashCode(element))

\* Variant of setHashCode.Contains that looks for the element itself.
setHashCodeContainsValue(data, element) ==
  \E h \in DOMAIN data : data[h] = element

\* _, found := s.data[element.HashCode()]
setHashCodeContains(data, element) == HashCode(element) \in DOMAIN data

setHashCodeLength(data) == Cardinality(DOMAIN data)

\* ------------------------------------------------------------ text codec
\* strings.FieldsFunc(value, r == ','): the maximal comma-free runs.
RECURSIVE FieldsFunc(_, _, _, _)
FieldsFunc(value, k, cur, parts) ==
  IF k > Len(value)
  THEN (IF cur = <<>> THEN parts ELSE Append(parts, cur))
  ELSE IF value[k] = ","
       THEN FieldsFunc(value, k + 1, <<>>,
                       IF cur = <<>> THEN parts ELSE Append(parts, cur))
       ELSE FieldsFunc(value, k + 1, Append(cur, value[k]), parts)

RECURSIVE TrimLeft(_)
TrimLeft(str) ==
  IF str # <<>> /\ Head(str) = " " THEN TrimLeft(Tail(str)) ELSE str

RECURSIVE TrimRight(_)
TrimRight(str) ==
  IF str # <<>> /\ str[Len(str)] = " "
  THEN TrimRight(SubSeq(str, 1, Len(str) - 1)) ELSE str

\* Variant of TrimSpace that trims the front only.
TrimSpaceLeftOnly(str) == TrimLeft(str)

\* strings.TrimSpace
TrimSpace(str) == TrimRight(TrimLeft(str))

RECURSIVE setUnmarshalTextLoop(_, _, _)
setUnmarshalTextLoop(data, parts, i) ==
  IF i > Len(parts) THEN data
  ELSE LET trimmed == TrimSpace(parts[i])
       IN IF trimmed # <<>>
          THEN setUnmarshalTextLoop(data \cup {trimmed}, parts, i + 1)
          ELSE setUnmarshalTextLoop(data, parts, i + 1)

\* set.UnmarshalText: s.data = make(map); then one entry per trimmed part.
setUnmarshalText(text) ==
  setUnmarshalTextLoop({}, FieldsFunc(text, 1, <<>>, <<>>), 1)

\* Variant of strings.Join that leaves out the separator.
RECURSIVE stringsJoinNoSep(_, _)
stringsJoinNoSep(elems, sep) ==
  IF elems = <<>> THEN <<>>
  ELSE elems[1] \o stringsJoinNoSep(Tail(elems), sep)

\* strings.Join(elems, sep)
RECURSIVE stringsJoin(_, _)
stringsJoin(elems, sep) ==
  IF elems = <<>> THEN <<>>
  ELSE IF Len(elems) = 1 THEN elems[1]
  ELSE elems[1] \o sep \o stringsJoin(Tail(elems), sep)

\* set.MarshalText: strings.Join(s.Strings(), ",")
setMarshalText(strs) == stringsJoin(strs, <<",">>)

\* ------------------------------------------------------------ JSON codec
\* A JSON document is a sequence of tokens; a value token carries the element
\* it encodes (encoding/json of the element type itself).
Tok(t) == [t |-> t]
Val(u) == [t |-> "val", v |-> u]

RECURSIVE jsonItems(_, _, _)
jsonItems(inner, k, elements) ==
  IF k > Len(inner) THEN [err |-> TRUE, elements |-> <<>>]
  ELSE IF inner[k].t # "val" THEN [err |-> TRUE, elements |-> <<>>]
  ELSE IF k = Len(inner)
       THEN [err |-> FALSE, elements |-> Append(elements, inner[k].v)]
  ELSE IF inner[k + 1].t # "," THEN [err |-> TRUE, elements |-> <<>>]
  ELSE jsonItems(inner, k + 2, Append(elements, inner[k].v))

\* json.Unmarshal(data, &elements) with elements a []T.
jsonUnmarshal(doc) ==
  IF Len(doc) = 1 /\ doc[1].t = "null" THEN [err |-> FALSE, elements |-> <<>>]
  ELSE IF Len(doc) >= 2 /\ doc[1].t = "[" /\ doc[Len(doc)].t = "]"
       THEN IF Len(doc) = 2 THEN [err |-> FALSE, elements |-> <<>>]
            ELSE jsonItems(SubSeq(doc, 2, Len(doc) - 1), 1, <<>>)
  ELSE [err |-> TRUE, elements |-> <<>>]

RECURSIVE jsonArray(_, _, _)
jsonArray(list, k, doc) ==
  IF k > Len(list) THEN Append(doc, Tok("]"))
  ELSE jsonArray(list, k + 1,
                 Append(IF k > 1 THEN Append(doc, Tok(",")) ELSE doc,
                        Val(list[k])))

\* Variant of setEqual.UnmarshalJSON that appends without the contains test.
RECURSIVE setEqualUnmarshalLoopAppendAll(_, _, _)
setEqualUnmarshalLoopAppendAll(data, elements, i) ==
  IF i > Len(elements) THEN data
  ELSE setEqualUnmarshalLoopAppendAll(Append(data, elements[i]), elements, i + 1)

RECURSIVE setEqualUnmarshalLoop(_, _, _)
setEqualUnmarshalLoop(data, elements, i) ==
  IF i > Len(elements) THEN data
  ELSE IF ~contains(data, elements[i], 1)
       THEN setEqualUnmarshalLoop(Append(data, elements[i]), elements, i + 1)
       ELSE setEqualUnmarshalLoop(data, elements, i + 1)

\* setEqual.UnmarshalJSON: on a decode error the data is left as it is.
setEqualUnmarshalJSON(data, doc) ==
  LET dec == jsonUnmarshal(doc)
  IN IF dec.err THEN data ELSE setEqualUnmarshalLoop(<<>>, dec.elements, 1)

\* The JSON documents handed to UnmarshalJSON: arrays, null, and malformed
\* input (a truncated array, an object).
JsonDocs ==
  LET arrays == {jsonArray(es, 1, <<Tok("[")>>) : es \in UserArgLists}
  IN arrays \cup {<<Tok("null")>>, <<Tok("{"), Tok("}")>>}
            \cup {SubSeq(d, 1, Len(d) - 1) : d \in arrays}

StrJsonDocs ==
  LET arrays == {jsonArray(es, 1, <<Tok("[")>>) : es \in StrArgLists}
  IN arrays \cup {<<Tok("null")>>, <<Tok("{"), Tok("}")>>}
            \cup {SubSeq(d, 1, Len(d) - 1) : d \in arrays}

JsonDocsOf(k) == IF k = "Set" THEN StrJsonDocs ELSE JsonDocs

\* Set.UnmarshalJSON / SetHashCode.UnmarshalJSON: decode an array, replace
\* the contents by its elements; on a decode error the data is left as it is.
setUnmarshalJSON(data, doc) ==
  LET dec == jsonUnmarshal(doc)
  IN IF dec.err THEN data ELSE setAdd({}, dec.elements, 1)

setHashCodeUnmarshalJSON(data, doc) ==
  LET dec == jsonUnmarshal(doc)
  IN IF dec.err THEN data ELSE setHashCodeAdd(<<>>, dec.elements, 1)

\* ------------------------------------------------------------- rendering
\* The characters of the rendered strings, in byte order.
ByteOrder == <<" ", ",", "1", "2", "3", "4", "5", "6", "7", "8", "9",
               "a", "b", "{", "}">>
Rank(c) == CHOOSE n \in 1..Len(ByteOrder) : ByteOrder[n] = c

\* a < b on Go strings: byte-wise lexicographic.
RECURSIVE Less(_, _)
Less(a, b) ==
  IF b = <<>> THEN FALSE
  ELSE IF a = <<>> THEN TRUE
  ELSE IF Head(a) = Head(b) THEN Less(Tail(a), Tail(b))
  ELSE Rank(Head(a)) < Rank(Head(b))

\* elementToString: a string as it is, a User through fmt.Sprintf("%v").
elementToString(k, element) ==
  IF k = "Set" THEN element
  ELSE <<"{", ByteOrder[Rank("1") + element.id - 1], " ", element.name, "}">>

RECURSIVE insertSorted(_, _)
insertSorted(sorted, str) ==
  IF sorted = <<>> THEN <<str>>
  ELSE IF Less(str, Head(sorted)) THEN <<str>> \o sorted
  ELSE <<Head(sorted)>> \o insertSorted(Tail(sorted), str)

\* Variant of Strings that leaves out the sort.
sortStringsSkipped(result, n, sorted) == result

\* sort.Strings(result)
RECURSIVE sortStrings(_, _, _)
sortStrings(result, n, sorted) ==
  IF n > Len(result) THEN sorted
  ELSE sortStrings(result, n + 1, insertSorted(sorted, result[n]))

\* formatSetString: the loop writing ", " before every element but the first.
RECURSIVE formatSetStringLoop(_, _, _)
formatSetStringLoop(b, elements, i) ==
  IF i > Len(elements) THEN b
  ELSE formatSetStringLoop(
         (IF i > 1 THEN b \o <<",", " ">> ELSE b) \o elements[i], elements, i + 1)

\* formatSetString(prefix, elements); the prefix is one token of the string.
formatSetString(prefix, elements) ==
  IF Len(elements) = 0 THEN <<prefix, "]">>
  ELSE formatSetStringLoop(<<prefix>>, elements, 1) \o <<"]">>

\* Variant of make: var result []T, the nil slice.
makeIsNilDeclared(n) == TRUE

\* make([]T, 0, n): an empty slice that is not nil.
makeIsNil(n) == FALSE

\* Variant of MarshalJSON that lists the elements as Strings() orders them.
setEqualMarshalJSONSorted(data, nil) ==
  LET rendered == [n \in 1..Len(data) |-> elementToString("SetEqual", data[n])]
      strs == sortStrings(rendered, 1, <<>>)
  IN jsonArray([n \in 1..Len(data) |->
                  data[CHOOSE m \in 1..Len(data) : rendered[m] = strs[n]]],
               1, <<Tok("[")>>)

\* json.Marshal(s.data): null for the nil slice, else an array.
setEqualMarshalJSON(data, nil) ==
  IF nil THEN <<Tok("null")>> ELSE jsonArray(data, 1, <<Tok("[")>>)

\* ------------------------------------------------- the three variants
EmptyOf(k) == IF k = "Set" THEN {} ELSE <<>>

\* NewSet / NewSetEqual / NewSetHashCode: empty data, then s.Add(elements...).
NewSet(elements) == setAdd({}, elements, 1)
NewSetEqual(elements) == setEqualAdd(<<>>, elements, 1)
NewSetHashCode(elements) == setHashCodeAdd(<<>>, elements, 1)

New(k, elements) ==
  CASE k = "Set" -> NewSet(elements)
    [] k = "SetEqual" -> NewSetEqual(elements)
    [] k = "SetHashCode" -> NewSetHashCode(elements)

\* ParseSetFromStrings: result[i] = T(v), then NewSet(result...).
ParseSetFromStrings(values) ==
  LET result == [i \in 1..Len(values) |-> values[i]]
  IN NewSet(result)

\* Variant of the loop of ParseSetFromString that keeps the empty parts.
RECURSIVE parseTrimLoopKeepEmpty(_, _, _)
parseTrimLoopKeepEmpty(parts, i, trimmed) ==
  IF i > Len(parts) THEN trimmed
  ELSE parseTrimLoopKeepEmpty(parts, i + 1, Append(trimmed, TrimSpace(parts[i])))

\* ParseSetFromString: the loop collecting the trimmed non-empty parts.
RECURSIVE parseTrimLoop(_, _, _)
parseTrimLoop(parts, i, trimmed) ==
  IF i > Len(parts) THEN trimmed
  ELSE LET t == TrimSpace(parts[i])
       IN parseTrimLoop(parts, i + 1,
                        IF t # <<>> THEN Append(trimmed, t) ELSE trimmed)

ParseSetFromString(value) ==
  ParseSetFromStrings(parseTrimLoop(FieldsFunc(value, 1, <<>>, <<>>), 1, <<>>))

\* The strings handed to ParseSetFromStrings: plain, padded, empty, and one
\* holding a comma.
RawStrs == {<<"a">>, <<"b">>, <<" ", "a">>, <<"a", " ">>, <<>>, <<"a", ",", "b">>}
RawLists == SeqsUpTo(RawStrs, MaxBatch)

AddOp(k, data, elements) ==
  CASE k = "Set" -> setAdd(data, elements, 1)
    [] k = "SetEqual" -> setEqualAdd(data, elements, 1)
    [] k = "SetHashCode" -> setHashCodeAdd(data, elements, 1)

\* setHashCode.Remove takes exactly one element.
RemoveOp(k, data, elements) ==
  CASE k = "Set" -> setRemove(data, elements, 1)
    [] k = "SetEqual" -> setEqualRemove(data, elements)
    [] k = "SetHashCode" -> setHashCodeRemove(data, elements[1])

ContainsOp(k, data, element) ==
  CASE k = "Set" -> setContains(data, element)
    [] k = "SetEqual" -> contains(data, element, 1)
    [] k = "SetHashCode" -> setHashCodeContains(data, element)

ContainsAllOp(k, data, elements) ==
  CASE k = "Set" -> setContainsAll(data, elements, 1)
    [] k = "SetEqual" -> setEqualContainsAll(data, elements, 1)

ContainsAnyOp(k, data, elements) ==
  CASE k = "Set" -> setContainsAny(data, elements, 1)
    [] k = "SetEqual" -> setEqualContainsAny(data, elements, 1)

LengthOp(k, data) ==
  CASE k = "Set" -> setLength(data)
    [] k = "SetEqual" -> setEqualLength(data)
    [] k = "SetHashCode" -> setHashCodeLength(data)

\* The orders in which ranging over a Go map may visit a set of entries.
Perms(S) == {p \in SeqsUpTo(S, Cardinality(S)) :
               Len(p) = Cardinality(S) /\ Range(p) = S}

\* Slice: the possible results (map iteration order is unspecified).
SliceOp(k, data) ==
  CASE k = "Set" -> Perms(data)
    [] k = "SetEqual" -> {Copy(data)}
    [] k = "SetHashCode" -> {[n \in 1..Len(p) |-> data[p[n]]] : p \in Perms(DOMAIN data)}

\* Strings: the elements in the order the loop visits them, rendered, sorted.
StringsOp(k, data) ==
  {sortStrings([n \in 1..Len(p) |-> elementToString(k, p[n])], 1, <<>>) :
     p \in SliceOp(k, data)}

UnmarshalJSONOp(k, data, doc) ==
  CASE k = "Set" -> setUnmarshalJSON(data, doc)
    [] k = "SetEqual" -> setEqualUnmarshalJSON(data, doc)
    [] k = "SetHashCode" -> setHashCodeUnmarshalJSON(data, doc)

\* MarshalJSON: the possible documents. Set / SetHashCode: a JSON array of
\* the elements in the order in which the map is visited.
MarshalJSONOp(k, data, nil) ==
  IF k = "SetEqual" THEN {setEqualMarshalJSON(data, nil)}
  ELSE {jsonArray(p, 1, <<Tok("[")>>) : p \in SliceOp(k, data)}

\* String: formatSetString("Set[" / "SetEqual[", s.Strings()).
StringOp(k, data) ==
  {formatSetString(IF k = "Set" THEN "Set[" ELSE "SetEqual[", strs) :
     strs \in StringsOp(k, data)}

\* Clone: new backing storage holding the same elements.
CloneOp(k, data) ==
  CASE k = "Set" -> {e \in data : TRUE}
    [] k = "SetEqual" -> Copy(data)
    [] k = "SetHashCode" -> [h \in DOMAIN data |-> data[h]]

RECURSIVE setHashCodeWithout(_, _, _)
setHashCodeWithout(data, elements, i) ==
  IF i > Len(elements) THEN data
  ELSE setHashCodeWithout(setHashCodeRemove(data, elements[i]), elements, i + 1)

\* Variant of Without that hands back the receiver's elements unfiltered.
WithoutOpKeepAll(k, data, elements) == CloneOp(k, data)

\* Without: a new set with the receiver's elements except the given ones.
WithoutOp(k, data, elements) ==
  CASE k = "Set" -> setRemove(CloneOp(k, data), elements, 1)
    [] k = "SetEqual" -> setEqualRemove(CloneOp(k, data), elements)
    [] k = "SetHashCode" -> setHashCodeWithout(CloneOp(k, data), elements, 1)

\* Variant of the allocation that shares the receiver's storage.
NewCellShared(c) == c

\* The backing storage a new set allocates: a cell no live set of the
\* caller is using (c is the receiver's cell).
NewCell(c) == CHOOSE n \in Cells : n # c

\* Variant of Copy that returns values itself: the result shares its array.
NewArrayShared(c) == c

\* Copy: result := make([]T, 0, len(values)) is a new array (c is the array
\* of values).
NewArray(c) == CHOOSE n \in Cells : n # c

\* set.Slice / setHashCode.Slice: result := make([]T, 0, len(s.data)) is a new
\* array (c is the storage of the map).
NewResult(c) == CHOOSE n \in Cells : n # c

\* --------------------------------------------------------------- errors
\* An error is a message and the errors it wraps.
Nil == [msg |-> "", causes |-> <<>>]
ErrorOf(msg) == [msg |-> msg, causes |-> <<>>]
Canceled == ErrorOf("context canceled")
Wrap(err, msg) == [msg |-> msg, causes |-> <<err>>]

\* Variant of NewErrorList that keeps only the first error.
NewErrorListFirst(list) == IF list = <<>> THEN Nil ELSE list[1]

\* run.NewErrorList(errs...): nil for no error, else the errors together.
NewErrorList(list) ==
  IF list = <<>> THEN Nil ELSE [msg |-> "errors", causes |-> list]

\* ------------------------------------------------------------------ state
VARIABLES
  kind,   \* which set type the instances are
  ref,    \* instance -> cell of its backing storage, 0 = not constructed
  store,  \* cell -> contents of the backing storage (the data field)
  made,   \* instance -> how it was constructed
  last,   \* the call that has just run (Idle between calls)
  ret,    \* what that call returned
  pre,    \* instance -> its data before that call
  prev,   \* <<x, data>> when the call completed before was Add(x) on data
  isNil,  \* whether the data slice of the setEqual "orig" is the nil slice
  held,   \* the slice a Slice() call returned to the caller: its array, its
          \* length, and the contents the caller has seen and written (want)
  mux,    \* the set's sync.Mutex: 0 = unlocked, else the goroutine holding it
  gpc,    \* goroutine -> where it is in its call
  gcall,  \* goroutine -> the method it is executing and its arguments
  gpass,  \* goroutine -> the locked passes of the call still to run
  gi,     \* goroutine -> loop index inside the method
  gacc,   \* goroutine -> local slice the method is building (result)
  gret,   \* goroutine -> the value the method is about to return
  snap,   \* goroutine -> the data when the call first took the lock
  committed, \* the data as the last completed mutating call left it
  trio,   \* one set of each variant, given the same Add and Remove calls
  fn,     \* the channel helper that was called, "none" when there is none
  plan,   \* what the functions and the channel passed to the helper do
  ch,     \* the items in the channel
  closed, \* whether the channel is closed
  cancelled, \* whether ctx, and the context derived from it, are cancelled
  prod,   \* the goroutine that emits: where it is, its next item, its error
  cons,   \* the goroutine that receives: where it is, its error
  errors, \* the channel on which run.Run delivers what the functions return
  errs,   \* the errors CancelOnFirstErrorWait has collected
  processed, \* the items the receiver has been given, in order
  outcome, \* what the helper returned, NotReturned while it runs
  iter,   \* a call of Each or Map: its arguments, its position, its result
  isect,  \* a call of Intersect: its arguments and its result
  runner  \* a call of run.CancelOnFirstError: its goroutines and channel

seqvars == <<ref, made, last, ret, pre, prev, isNil, held>>
convars == <<mux, gpc, gcall, gpass, gi, gacc, gret, snap, committed>>
setvars == <<kind, store, seqvars, convars>>
chanvars == <<fn, plan, ch, closed, cancelled, prod, cons, errors, errs,
              processed, outcome>>
morevars == <<iter, isect, runner>>
sessvars == <<trio, chanvars, morevars>>
vars == <<setvars, sessvars>>

Procs == 1..NumProcs
NoCall == [op |-> "idle", args |-> <<>>]

Other(i) == IF i = "orig" THEN "copy" ELSE "orig"
Data(i) == IF ref[i] = 0 THEN EmptyOf(kind) ELSE store[ref[i]]
View == [i \in Inst |-> Data(i)]
Call(op, i, args) == [op |-> op, inst |-> i, args |-> args]
Idle == Call("idle", "orig", <<>>)

\* The set "orig" has been constructed from some elements; sequential is
\* whether the constructor call is the caller's last call.
NoSlice == [cell |-> 0, len |-> 0, want |-> <<>>]

NoTrio == [univ |-> "none"]

NotReturned == [returned |-> FALSE]
NoPlan == [items |-> <<>>]
Live == [caller |-> FALSE, derived |-> FALSE, blocked |-> FALSE, freed |-> FALSE]

\* The state of the channel and of the goroutines when a helper is called.
ChanStarted ==
  /\ ch = <<>>
  /\ closed = FALSE
  /\ cancelled = Live
  /\ prod = [pc |-> "run", i |-> 1, err |-> Nil]
  /\ cons = [pc |-> "select", err |-> Nil]
  /\ errors = <<>>
  /\ errs = <<>>
  /\ processed = <<>>
  /\ outcome = NotReturned

NoChan == fn = "none" /\ plan = NoPlan /\ ChanStarted

NoIter == [fn |-> "none"]
NoIntersect == [a |-> <<>>, b |-> <<>>, called |-> FALSE]
NoRunner == [funcs |-> <<>>]
NoMore == iter = NoIter /\ isect = NoIntersect /\ runner = NoRunner

\* No other session is in progress.
NoSession == trio = NoTrio /\ NoChan /\ NoMore

SetStarted(data, call) ==
  /\ held = NoSlice
  /\ store = [c \in Cells |-> IF c = 1 THEN data ELSE EmptyOf(kind)]
  /\ last = call
  /\ isNil = makeIsNil(0)
  /\ ref = [i \in Inst |-> IF i = "orig" THEN 1 ELSE 0]
  /\ made = [i \in Inst |-> IF i = "orig" THEN "New" ELSE "none"]
  /\ ret = "void"
  /\ pre = [i \in Inst |-> EmptyOf(kind)]
  /\ prev = <<>>
  /\ mux = 0
  /\ gpc = [g \in Procs |-> "idle"]
  /\ gcall = [g \in Procs |-> NoCall]
  /\ gpass = [g \in Procs |-> <<>>]
  /\ gi = [g \in Procs |-> 0]
  /\ gacc = [g \in Procs |-> <<>>]
  /\ gret = [g \in Procs |-> <<>>]
  /\ snap = [g \in Procs |-> EmptyOf(kind)]
  /\ committed = store[1]

Started(data, call) == SetStarted(data, call) /\ NoSession

Constructed(sequential) ==
  /\ kind \in Kinds
  /\ \E elements \in ArgLists(kind) :
       Started(New(kind, elements),
               IF sequential THEN Call("New", "orig", elements) ELSE Idle)

Init == Constructed(TRUE)

\* A string set built by ParseSetFromStrings or ParseSetFromString.
InitText ==
  /\ kind = "Set"
  /\ \/ \E values \in RawLists :
          Started(ParseSetFromStrings(values),
                  Call("ParseSetFromStrings", "orig", values))
     \/ \E value \in Texts :
          Started(ParseSetFromString(value),
                  Call("ParseSetFromString", "orig", value))

\* The set is constructed and then shared by the goroutines.
InitConc == Constructed(FALSE)

\* Whether s.data is the nil slice after a call: append to the nil slice
\* gives a slice that is not nil; setEqual.Remove, UnmarshalText and a
\* successful UnmarshalJSON assign a made one.
NilAfter(op, wasNil, data, result) ==
  CASE op = "Add" -> wasNil /\ LengthOp(kind, data) = 0
    [] op = "Remove" ->
         IF kind = "SetEqual" THEN makeIsNil(LengthOp(kind, data)) ELSE wasNil
    [] op = "UnmarshalText" -> makeIsNil(0)
    [] op = "UnmarshalJSON" ->
         IF result = "error" THEN wasNil ELSE makeIsNil(LengthOp(kind, data))
    [] OTHER -> wasNil

\* A call that only changes the receiver's data.
Mutate(op, i, args, data, result) ==
  /\ last = Idle
  /\ ref[i] # 0
  /\ store' = [store EXCEPT ![ref[i]] = data]
  /\ last' = Call(op, i, args)
  /\ ret' = result
  /\ pre' = View
  /\ committed' = IF i = "orig" THEN data ELSE committed
  /\ isNil' = IF i = "orig" THEN NilAfter(op, isNil, data, result) ELSE isNil
  /\ UNCHANGED <<kind, ref, made, prev, held>>
  /\ UNCHANGED <<mux, gpc, gcall, gpass, gi, gacc, gret, snap, sessvars>>

\* A call that only reads the receiver's data.
Query(op, i, args, result) ==
  /\ last = Idle
  /\ ref[i] # 0
  /\ last' = Call(op, i, args)
  /\ ret' = result
  /\ pre' = View
  /\ UNCHANGED <<kind, ref, store, made, prev, isNil, held, convars, sessvars>>

\* A call that returns a new set, kept by the caller as the other instance.
Make(op, i, args, data) ==
  /\ last = Idle
  /\ ref[i] # 0
  /\ LET c == NewCell(ref[i])
     IN /\ ref' = [ref EXCEPT ![Other(i)] = c]
        /\ store' = [store EXCEPT ![c] = data]
  /\ made' = [made EXCEPT ![Other(i)] = op]
  /\ last' = Call(op, i, args)
  /\ ret' = "void"
  /\ pre' = View
  /\ UNCHANGED <<kind, prev, isNil, held, convars, sessvars>>

Add(i, elements) ==
  Mutate("Add", i, elements, AddOp(kind, Data(i), elements), "void")

Remove(i, elements) ==
  /\ kind = "SetHashCode" => Len(elements) = 1
  /\ Mutate("Remove", i, elements, RemoveOp(kind, Data(i), elements), "void")

Contains(i, element) ==
  Query("Contains", i, <<element>>, ContainsOp(kind, Data(i), element))

ContainsAll(i, elements) ==
  /\ kind # "SetHashCode"
  /\ Query("ContainsAll", i, elements, ContainsAllOp(kind, Data(i), elements))

ContainsAny(i, elements) ==
  /\ kind # "SetHashCode"
  /\ Query("ContainsAny", i, elements, ContainsAnyOp(kind, Data(i), elements))

Length(i) == Query("Length", i, <<>>, LengthOp(kind, Data(i)))

Slice(i) ==
  /\ last = Idle
  /\ \E result \in SliceOp(kind, Data(i)) : Query("Slice", i, <<>>, result)

Strings(i) ==
  /\ last = Idle
  /\ kind # "SetHashCode"
  /\ \E result \in StringsOp(kind, Data(i)) : Query("Strings", i, <<>>, result)

String(i) ==
  /\ last = Idle
  /\ kind # "SetHashCode"
  /\ \E result \in StringOp(kind, Data(i)) : Query("String", i, <<>>, result)

MarshalJSON(i) ==
  /\ last = Idle
  /\ \E result \in MarshalJSONOp(kind, Data(i), isNil) :
       Query("MarshalJSON", i, <<>>, result)

Clone(i) == Make("Clone", i, <<>>, CloneOp(kind, Data(i)))

Without(i, elements) == Make("Without", i, elements, WithoutOp(kind, Data(i), elements))

MarshalText(i) ==
  /\ last = Idle
  /\ kind = "Set"
  /\ \E strs \in StringsOp(kind, Data(i)) :
       Query("MarshalText", i, <<>>, setMarshalText(strs))

UnmarshalText(i, text) ==
  /\ kind = "Set"
  /\ Mutate("UnmarshalText", i, text, setUnmarshalText(text), "nil")

UnmarshalJSON(i, doc) ==
  /\ Mutate("UnmarshalJSON", i, doc, UnmarshalJSONOp(kind, Data(i), doc),
            IF jsonUnmarshal(doc).err THEN "error" ELSE "nil")

\* The call returns to its caller, which goes on to its next call. A caller
\* that keeps track remembers a single-element Add it has just made.
Return(track) ==
  /\ last # Idle
  /\ last' = Idle
  /\ ret' = "void"
  /\ pre' = View
  /\ prev' = IF track /\ last.op = "Add" /\ Len(last.args) = 1
             THEN <<last.args[1], pre[last.inst]>> ELSE <<>>
  /\ UNCHANGED <<kind, ref, store, made, isNil, held, convars, sessvars>>

\* Calls on one set, constructed by NewSet / NewSetEqual / NewSetHashCode.
Next ==
  \/ last = Idle /\ \E elements \in ArgLists(kind) : Add("orig", elements)
  \/ last = Idle /\ \E elements \in ArgLists(kind) : Remove("orig", elements)
  \/ last = Idle /\ \E element \in Elems(kind) : Contains("orig", element)
  \/ last = Idle /\ \E elements \in ArgLists(kind) : ContainsAll("orig", elements)
  \/ last = Idle /\ \E elements \in ArgLists(kind) : ContainsAny("orig", elements)
  \/ Length("orig")
  \/ Slice("orig")
  \/ Strings("orig")
  \/ String("orig")
  \/ MarshalJSON("orig")
  \/ last = Idle /\ \E text \in Texts : UnmarshalText("orig", text)
  \/ last = Idle /\ \E doc \in JsonDocsOf(kind) : UnmarshalJSON("orig", doc)
  \/ Return(TRUE)

Spec == Init /\ [][Next]_vars

\* Calls on a set and on the set a Clone or Without of it returned.
NextClone ==
  \/ last = Idle /\ \E i \in Inst, elements \in ArgLists(kind) : Add(i, elements)
  \/ last = Idle /\ \E i \in Inst, elements \in ArgLists(kind) : Remove(i, elements)
  \/ Clone("orig")
  \/ last = Idle /\ \E elements \in ArgLists(kind) : Without("orig", elements)
  \/ Return(FALSE)

SpecClone == Init /\ [][NextClone]_vars

\* The caller keeps the slice that Slice() returns.
SliceKept(i) ==
  /\ last = Idle
  /\ ref[i] # 0
  /\ \E result \in SliceOp(kind, Data(i)) :
       LET c == IF kind = "SetEqual" THEN NewArray(ref[i]) ELSE NewResult(ref[i])
       IN /\ store' = [store EXCEPT ![c] = result]
          /\ held' = [cell |-> c, len |-> Len(result), want |-> result]
          /\ ret' = result
  /\ last' = Call("Slice", i, <<>>)
  /\ pre' = View
  /\ UNCHANGED <<kind, ref, made, prev, isNil, convars, sessvars>>

\* What the caller does with the slice it holds.
HeldStep(op, args, array, slice) ==
  /\ last = Idle
  /\ held # NoSlice
  /\ store' = [store EXCEPT ![slice.cell] = array]
  /\ held' = slice
  /\ last' = Call(op, "orig", args)
  /\ ret' = "void"
  /\ pre' = View
  /\ committed' = store'[1]
  /\ UNCHANGED <<kind, ref, made, prev, isNil>>
  /\ UNCHANGED <<mux, gpc, gcall, gpass, gi, gacc, gret, snap, sessvars>>

\* slice[k] = element
HeldWrite(k, element) ==
  /\ k \in 1..held.len
  /\ HeldStep("slice[k] = e", <<element>>,
              [store[held.cell] EXCEPT ![k] = element],
              [held EXCEPT !.want = [@ EXCEPT ![k] = element]])

\* slice = slice[:len(slice)-1]
HeldTruncate ==
  /\ held.len > 0
  /\ HeldStep("slice = slice[:n-1]", <<>>, store[held.cell],
              [held EXCEPT !.len = @ - 1,
                           !.want = SubSeq(@, 1, held.len - 1)])

\* slice = append(slice, element): in place while the array has room, else
\* into a new array.
HeldAppend(element) ==
  /\ held # NoSlice
  /\ held.len < MaxBatch
  /\ IF held.len < Len(store[held.cell])
     THEN HeldStep("append", <<element>>,
                   [store[held.cell] EXCEPT ![held.len + 1] = element],
                   [held EXCEPT !.len = @ + 1, !.want = Append(@, element)])
     ELSE HeldStep("append", <<element>>,
                   Append(SubSeq(store[held.cell], 1, held.len), element),
                   [cell |-> NewResult(ref["orig"]), len |-> held.len + 1,
                    want |-> Append(held.want, element)])

\* Calls on a set while the caller holds and changes a slice it returned.
NextSlice ==
  \/ last = Idle /\ \E element \in Elems(kind) : Add("orig", <<element>>)
  \/ last = Idle /\ \E element \in Elems(kind) : Remove("orig", <<element>>)
  \/ SliceKept("orig")
  \/ \E k \in 1..MaxBatch, element \in Elems(kind) : HeldWrite(k, element)
  \/ HeldTruncate
  \/ \E element \in Elems(kind) : HeldAppend(element)
  \/ Return(FALSE)

SpecSlice == Init /\ [][NextSlice]_vars

\* The users with one name for each ID: on them Equal is == and HashCode is
\* injective.
PlainUsers == {u \in Users : u.name = "a"}

TrioUsers(univ) == IF univ = "plain" THEN PlainUsers ELSE Users

\* NewSet[User](), NewSetEqual[User]() and NewSetHashCode[User]().
InitTrio ==
  /\ kind = "Set"
  /\ SetStarted(EmptyOf("Set"), Idle)
  /\ \E univ \in {"plain", "all"} :
       trio = [univ |-> univ, op |-> "New", args |-> <<>>,
               sets |-> [k \in Kinds |-> New(k, <<>>)]]
  /\ NoChan
  /\ NoMore

\* The same Add call on each of the three sets.
TrioAdd(elements) ==
  /\ trio' = [trio EXCEPT !.op = "Add", !.args = elements,
                !.sets = [k \in Kinds |-> AddOp(k, @[k], elements)]]
  /\ UNCHANGED <<setvars, chanvars, morevars>>

\* The same Remove call on each of the three sets.
TrioRemove(element) ==
  /\ trio' = [trio EXCEPT !.op = "Remove", !.args = <<element>>,
                !.sets = [k \in Kinds |-> RemoveOp(k, @[k], <<element>>)]]
  /\ UNCHANGED <<setvars, chanvars, morevars>>

NextTrio ==
  \/ \E elements \in SeqsUpTo(TrioUsers(trio.univ), MaxBatch) : TrioAdd(elements)
  \/ \E element \in TrioUsers(trio.univ) : TrioRemove(element)

SpecTrio == InitTrio /\ [][NextTrio]_vars

\* ------------------------------------------------------- channel helpers
ItemVals == {"x", "y"}
ItemLists == SeqsUpTo(ItemVals, MaxItems)
DrainFns == {"ChannelFnMap", "ChannelFnList", "ChannelFnCount"}

\* getFn emits items and returns nil, or an error when fails; coop is whether
\* its sends select on ctx.Done(). mapFn fails on the mapFails-th item it is
\* given (0: never); the functions of ChannelFnList and ChannelFnCount
\* collect and count and never fail.
\* The channel of the drain helpers has ChanCap slots. StreamList gets its
\* list and a channel, unbuffered or buffered, from its caller.
Plans(f) ==
  IF f = "StreamList"
  THEN [items : ItemLists, fails : {FALSE}, coop : {TRUE}, mapFails : {0},
        cap : {0, ChanCap}]
  ELSE {p \in [items : ItemLists, fails : BOOLEAN, coop : BOOLEAN,
               mapFails : 0..MaxItems, cap : {ChanCap}] :
          p.mapFails <= (IF f = "ChannelFnMap" THEN Len(p.items) ELSE 0)}

SetUnused == kind = "Set" /\ SetStarted(EmptyOf("Set"), Idle) /\ trio = NoTrio

InitDrain ==
  /\ SetUnused
  /\ fn \in DrainFns \cup {"StreamList"}
  /\ plan \in Plans(fn)
  /\ ChanStarted
  /\ NoMore

\* Variant of the select in which the case <-ctx.Done() is never ready.
ctxDoneNever(c) == FALSE

\* case <-ctx.Done() is ready once the context is cancelled.
ctxDone(c) == c.derived

Running == outcome = NotReturned

\* Variant of the send that never waits for room in the channel.
sendReadyAlways(queue, cap) == TRUE

\* ch <- v on a buffered channel proceeds only while the buffer has room.
sendReady(queue, cap) == Len(queue) < cap

\* case ch <- item, or the plain ch <- item of a getFn without select.
ProducerSend ==
  /\ fn \in DrainFns
  /\ prod.pc = "run"
  /\ prod.i <= Len(plan.items)
  /\ sendReady(ch, plan.cap)
  /\ ch' = Append(ch, plan.items[prod.i])
  /\ prod' = [prod EXCEPT !.i = @ + 1]
  /\ UNCHANGED <<setvars, morevars, trio, fn, plan, closed, cancelled, cons, errors,
                 errs, processed, outcome>>

\* case <-ctx.Done(): return ctx.Err()
ProducerCancelled ==
  /\ fn \in DrainFns
  /\ prod.pc = "run"
  /\ prod.i <= Len(plan.items)
  /\ plan.coop
  /\ ctxDone(cancelled)
  /\ prod' = [prod EXCEPT !.pc = "close", !.err = Canceled]
  /\ UNCHANGED <<setvars, morevars, trio, fn, plan, ch, closed, cancelled, cons, errors,
                 errs, processed, outcome>>

\* getFn returns after its last item.
ProducerReturn ==
  /\ fn \in DrainFns
  /\ prod.pc = "run"
  /\ prod.i > Len(plan.items)
  /\ prod' = [prod EXCEPT !.pc = "close",
                !.err = IF plan.fails THEN ErrorOf("producer error") ELSE Nil]
  /\ UNCHANGED <<setvars, morevars, trio, fn, plan, ch, closed, cancelled, cons, errors,
                 errs, processed, outcome>>

\* defer close(ch)
ProducerClose ==
  /\ prod.pc = "close"
  /\ closed' = TRUE
  /\ prod' = [prod EXCEPT !.pc = "report"]
  /\ UNCHANGED <<setvars, morevars, trio, fn, plan, ch, cancelled, cons, errors, errs,
                 processed, outcome>>

\* Variant of a receive that leaves the item in the channel.
afterReceiveKeeps(queue) == queue

\* The channel after a receive took its first item.
afterReceive(queue) == Tail(queue)

\* Variant of the receive from a closed channel that reports closed while
\* items are still buffered.
receiveNotOkEarly(queue, isClosed) == isClosed

\* A receive yields !ok when the channel is closed and holds no item.
receiveNotOk(queue, isClosed) == queue = <<>> /\ isClosed

\* Variant of the consumer that gives the item it failed on to mapFn again.
mapFnCallsRetry(items, t, failed) ==
  IF failed THEN Append(Append(items, t), t) ELSE Append(items, t)

\* The items mapFn has been called with, after it is called with t.
mapFnCalls(items, t, failed) == Append(items, t)

\* case t, ok := <-ch with ok: mapFn(ctx, t); its error is wrapped and
\* returned.
ConsumerReceive ==
  /\ fn \in DrainFns
  /\ cons.pc = "select"
  /\ ch # <<>>
  /\ ch' = afterReceive(ch)
  /\ LET failed == plan.mapFails = Len(processed) + 1
     IN /\ processed' = mapFnCalls(processed, Head(ch), failed)
        /\ cons' = IF failed
                   THEN [pc |-> "report",
                         err |-> Wrap(ErrorOf("map error"), "map failed")]
                   ELSE cons
  /\ UNCHANGED <<setvars, morevars, trio, fn, plan, closed, cancelled, prod, errors,
                 errs, outcome>>

\* case t, ok := <-ch with !ok: return nil
ConsumerClosed ==
  /\ fn \in DrainFns
  /\ cons.pc = "select"
  /\ receiveNotOk(ch, closed)
  /\ cons' = [pc |-> "report", err |-> Nil]
  /\ UNCHANGED <<setvars, morevars, trio, fn, plan, ch, closed, cancelled, prod, errors,
                 errs, processed, outcome>>

\* case <-ctx.Done(): return ctx.Err()
ConsumerCancelled ==
  /\ fn \in DrainFns
  /\ cons.pc = "select"
  /\ ctxDone(cancelled)
  /\ cons' = [pc |-> "report", err |-> Canceled]
  /\ UNCHANGED <<setvars, morevars, trio, fn, plan, ch, closed, cancelled, prod, errors,
                 errs, processed, outcome>>

\* run.Run: errors <- run(ctx); wg.Done()
ProducerReport ==
  /\ prod.pc = "report"
  /\ Len(errors) < ChanCap
  /\ errors' = Append(errors, prod.err)
  /\ prod' = [prod EXCEPT !.pc = "done"]
  /\ UNCHANGED <<setvars, morevars, trio, fn, plan, ch, closed, cancelled, cons, errs,
                 processed, outcome>>

ConsumerReport ==
  /\ cons.pc = "report"
  /\ Len(errors) < ChanCap
  /\ errors' = Append(errors, cons.err)
  /\ cons' = [cons EXCEPT !.pc = "done"]
  /\ UNCHANGED <<setvars, morevars, trio, fn, plan, ch, closed, cancelled, prod, errs,
                 processed, outcome>>

\* CancelOnFirstErrorWait: for err := range Run(...) { if err != nil {
\* cancel(); errs = append(errs, err) } }
Collect ==
  /\ Running
  /\ errors # <<>>
  /\ errors' = Tail(errors)
  /\ IF Head(errors) # Nil
     THEN /\ cancelled' = [cancelled EXCEPT !.derived = TRUE]
          /\ errs' = Append(errs, Head(errors))
     ELSE UNCHANGED <<cancelled, errs>>
  /\ UNCHANGED <<setvars, morevars, trio, fn, plan, ch, closed, prod, cons, processed,
                 outcome>>

\* Variant of the loop of CancelOnFirstErrorWait that ends at the first
\* error, as CancelOnFirstError does.
RangeEndsAtFirstError(list, queue, p, c) ==
  list # <<>> \/ (queue = <<>> /\ p = "done" /\ c = "done")

\* The range over Run's channel ends when the channel is empty and closed:
\* wg.Wait() has seen both functions report.
RangeEnds(list, queue, p, c) == queue = <<>> /\ p = "done" /\ c = "done"

\* Variant of the helpers' return that hands out what was received so far
\* together with the error.
OutcomeKeepsPartial(f, err, items) ==
  CASE f = "ChannelFnMap" ->
         [returned |-> TRUE,
          err |-> IF err = Nil THEN Nil ELSE Wrap(err, "map channel failed")]
    [] f = "ChannelFnList" ->
         [returned |-> TRUE, nilList |-> FALSE, list |-> items,
          err |-> IF err = Nil THEN Nil
                  ELSE Wrap(err, "convert channel to list failed")]
    [] f = "ChannelFnCount" ->
         [returned |-> TRUE, count |-> Len(items),
          err |-> IF err = Nil THEN Nil ELSE Wrap(err, "count channel failed")]

\* What the helper returns for the error of CancelOnFirstErrorWait.
Outcome(f, err, items) ==
  CASE f = "ChannelFnMap" ->
         [returned |-> TRUE,
          err |-> IF err = Nil THEN Nil ELSE Wrap(err, "map channel failed")]
    [] f = "ChannelFnList" ->
         IF err = Nil
         THEN [returned |-> TRUE, err |-> Nil, nilList |-> FALSE, list |-> items]
         ELSE [returned |-> TRUE, nilList |-> TRUE, list |-> <<>>,
               err |-> Wrap(err, "convert channel to list failed")]
    [] f = "ChannelFnCount" ->
         IF err = Nil
         THEN [returned |-> TRUE, err |-> Nil, count |-> Len(items)]
         ELSE [returned |-> TRUE, count |-> -1,
               err |-> Wrap(err, "count channel failed")]

\* return NewErrorList(errs...), wrapped by the helper.
Finish ==
  /\ fn \in DrainFns
  /\ Running
  /\ RangeEnds(errs, errors, prod.pc, cons.pc)
  /\ outcome' = Outcome(fn, NewErrorList(errs), processed)
  /\ UNCHANGED <<setvars, morevars, trio, fn, plan, ch, closed, cancelled, prod, cons,
                 errors, errs, processed>>

\* Whether the goroutine that sends is waiting for room in the channel.
SendBlocked ==
  /\ prod.pc = "run"
  /\ prod.i <= Len(plan.items)
  /\ IF plan.cap = 0 THEN cons.pc # "select" ELSE Len(ch) >= plan.cap

\* The caller cancels ctx, before the helper has run a step or during it.
Cancel ==
  /\ Running
  /\ ~cancelled.caller
  /\ cancelled' = [caller |-> TRUE, derived |-> TRUE, blocked |-> SendBlocked,
                   freed |-> FALSE]
  /\ UNCHANGED <<setvars, morevars, trio, fn, plan, ch, closed, prod, cons, errors, errs,
                 processed, outcome>>

\* StreamList: case ch <- e. On an unbuffered channel the send happens when
\* the receiver is waiting, and hands it the item.
StreamSend ==
  /\ fn = "StreamList"
  /\ prod.pc = "run"
  /\ prod.i <= Len(plan.items)
  /\ IF plan.cap = 0
     THEN /\ cons.pc = "select"
          /\ processed' = Append(processed, plan.items[prod.i])
          /\ ch' = ch
     ELSE /\ Len(ch) < plan.cap
          /\ ch' = Append(ch, plan.items[prod.i])
          /\ processed' = processed
  /\ prod' = [prod EXCEPT !.i = @ + 1]
  /\ UNCHANGED <<setvars, morevars, trio, fn, plan, closed, cancelled, cons, errors,
                 errs, outcome>>

\* Variant of the case <-ctx.Done() of StreamList that still sends the
\* element.
onDoneSendsToo(queue, e) == Append(queue, e)

\* The channel after StreamList took the case <-ctx.Done(): nothing is sent.
onDone(queue, e) == queue

\* StreamList: case <-ctx.Done(): return ctx.Err()
StreamCancelled ==
  /\ fn = "StreamList"
  /\ prod.pc = "run"
  /\ prod.i <= Len(plan.items)
  /\ ctxDone(cancelled)
  /\ prod' = [prod EXCEPT !.pc = "done", !.err = Canceled]
  /\ outcome' = [returned |-> TRUE, err |-> Canceled]
  /\ ch' = onDone(ch, plan.items[prod.i])
  /\ UNCHANGED <<setvars, morevars, trio, fn, plan, closed, cancelled, cons, errors,
                 errs, processed>>

\* Variant of StreamList that closes the channel before it returns.
leftByStreamClosed(isClosed) == TRUE

\* StreamList leaves the channel as it is: it does not close it.
leftByStream(isClosed) == isClosed

\* StreamList: return nil after the last element.
StreamReturn ==
  /\ fn = "StreamList"
  /\ prod.pc = "run"
  /\ prod.i > Len(plan.items)
  /\ prod' = [prod EXCEPT !.pc = "done"]
  /\ closed' = leftByStream(closed)
  /\ outcome' = [returned |-> TRUE, err |-> Nil]
  /\ UNCHANGED <<setvars, morevars, trio, fn, plan, ch, cancelled, cons, errors, errs,
                 processed>>

\* The goroutine reading the channel StreamList sends on takes an item.
Receive ==
  /\ fn = "StreamList"
  /\ cons.pc = "select"
  /\ ch # <<>>
  /\ ch' = afterReceive(ch)
  /\ processed' = Append(processed, Head(ch))
  /\ cancelled' = [cancelled EXCEPT !.freed = @ \/ cancelled.caller]
  /\ UNCHANGED <<setvars, morevars, trio, fn, plan, closed, prod, cons, errors, errs,
                 outcome>>

\* That goroutine stops reading, or there is none.
ReceiverStops ==
  /\ fn = "StreamList"
  /\ cons.pc = "select"
  /\ cons' = [cons EXCEPT !.pc = "done"]
  /\ UNCHANGED <<setvars, morevars, trio, fn, plan, ch, closed, cancelled, prod, errors,
                 errs, processed, outcome>>

NextDrain ==
  \/ StreamSend
  \/ StreamCancelled
  \/ StreamReturn
  \/ Receive
  \/ ReceiverStops
  \/ ProducerSend
  \/ ProducerCancelled
  \/ ProducerReturn
  \/ ProducerClose
  \/ ProducerReport
  \/ ConsumerReceive
  \/ ConsumerClosed
  \/ ConsumerCancelled
  \/ ConsumerReport
  \/ Collect
  \/ Finish
  \/ Cancel

SpecDrain == InitDrain /\ [][NextDrain]_vars

\* Every goroutine that can take a step takes one.
DrainFairness ==
  /\ WF_vars(ProducerSend \/ ProducerReturn \/ ProducerClose \/ ProducerReport)
  /\ WF_vars(ProducerCancelled)
  /\ WF_vars(ConsumerReceive \/ ConsumerClosed \/ ConsumerReport)
  /\ WF_vars(ConsumerCancelled)
  /\ WF_vars(Collect \/ Finish)
  /\ WF_vars(StreamSend \/ StreamReturn)
  /\ WF_vars(StreamCancelled)

SpecDrainLive == SpecDrain /\ DrainFairness

\* Calls of the text codec on a set that one of the parse functions built.
\* ------------------------------------------------------------ Each, Map
\* fn(ctx, value) of the callers: the value it transforms an element to, and
\* the error of a failing call.
transformed(value) == <<value, "'">>
fnError(value) == Wrap(ErrorOf(value), "error processing")

IterFns == {"Each", "Map"}

\* A call of Each or Map with a list and a function that fails at the
\* indices in fails; ctx is live when the call begins.
InitIter ==
  /\ SetUnused
  /\ NoChan
  /\ isect = NoIntersect
  /\ runner = NoRunner
  /\ \E f \in IterFns, list \in ItemLists :
       \E fails \in SUBSET (1..Len(list)) :
         iter = [fn |-> f, list |-> list, fails |-> fails, pc |-> "select",
                 i |-> 1, calls |-> <<>>, result |-> <<>>, done |-> FALSE,
                 seen |-> 0, midcall |-> FALSE, returned |-> FALSE,
                 err |-> Nil, ret |-> <<>>, nilRet |-> TRUE]

\* Variant of the select in which the default case is taken although
\* <-ctx.Done() is ready.
selectDefaultAlways(done) == TRUE

\* select { case <-ctx.Done(): ... default: ... }: the default case is taken
\* only when no other case is ready.
selectDefault(done) == ~done

\* Variant of Each that wraps the error of fn.
eachErrWrapped(err) == Wrap(err, "each failed")

\* Each: if err := fn(ctx, element); err != nil { return err }
eachErr(err) == err

\* Variant of Map that drops the partial result when fn fails.
mapOnErrorNil(result) == <<>>

\* Map: if err != nil { return result, err }
mapOnError(result) == result

\* The caller cancels ctx, before, during or between the calls of fn.
IterCancel ==
  /\ ~iter.returned
  /\ ~iter.done
  /\ iter' = [iter EXCEPT !.done = TRUE, !.seen = Len(iter.calls),
                          !.midcall = (iter.pc = "fn")]
  /\ UNCHANGED <<setvars, trio, chanvars, isect, runner>>

\* for _, element := range list { select { case <-ctx.Done(): return
\* ctx.Err() (Map: return nil, ctx.Err()); default: fn(ctx, element) is called
IterSelect ==
  /\ ~iter.returned
  /\ iter.pc = "select"
  /\ iter.i <= Len(iter.list)
  /\ iter' = IF selectDefault(iter.done)
             THEN [iter EXCEPT !.pc = "fn", !.calls = Append(@, iter.i)]
             ELSE [iter EXCEPT !.returned = TRUE, !.err = Canceled,
                               !.ret = <<>>, !.nilRet = TRUE]
  /\ UNCHANGED <<setvars, trio, chanvars, isect, runner>>

\* fn returns: with an error, Each returns err and Map returns result, err;
\* without, Map appends the transformed value and the loop goes on.
IterFnReturns ==
  /\ ~iter.returned
  /\ iter.pc = "fn"
  /\ iter' = IF iter.i \in iter.fails
             THEN [iter EXCEPT
                     !.returned = TRUE,
                     !.err = IF iter.fn = "Each"
                             THEN eachErr(fnError(iter.list[iter.i]))
                             ELSE fnError(iter.list[iter.i]),
                     !.ret = IF iter.fn = "Map" THEN mapOnError(iter.result)
                             ELSE <<>>,
                     !.nilRet = FALSE]
             ELSE [iter EXCEPT
                     !.pc = "select",
                     !.i = @ + 1,
                     !.result = IF iter.fn = "Map"
                                THEN Append(@, transformed(iter.list[iter.i]))
                                ELSE @]
  /\ UNCHANGED <<setvars, trio, chanvars, isect, runner>>

\* After the loop: Each returns nil, Map returns result, nil.
IterReturn ==
  /\ ~iter.returned
  /\ iter.pc = "select"
  /\ iter.i > Len(iter.list)
  /\ iter' = [iter EXCEPT !.returned = TRUE, !.err = Nil,
                          !.ret = iter.result, !.nilRet = FALSE]
  /\ UNCHANGED <<setvars, trio, chanvars, isect, runner>>

NextIter ==
  \/ IterCancel
  \/ IterSelect
  \/ IterFnReturns
  \/ IterReturn

SpecIter == InitIter /\ [][NextIter]_vars

\* ------------------------------------------------------------ Intersect
SectVals == {"x", "y", "z"}
SectLists == SeqsUpTo(SectVals, MaxItems)

\* Variant of the loop that does not record what it has added.
seenPutNothing(seen, aa) == seen

\* seen[aa] = struct{}{}
seenPut(seen, aa) == seen \cup {aa}

\* for _, bb := range b { mapB[bb] = struct{}{} }
mapBOf(b) == Range(b)

\* for _, aa := range a { if inB && !alreadyAdded { append; seen[aa] } }
RECURSIVE intersectLoop(_, _, _, _, _)
intersectLoop(a, mapB, k, seen, result) ==
  IF k > Len(a) THEN result
  ELSE IF a[k] \in mapB /\ a[k] \notin seen
       THEN intersectLoop(a, mapB, k + 1, seenPut(seen, a[k]),
                          Append(result, a[k]))
       ELSE intersectLoop(a, mapB, k + 1, seen, result)

\* Intersect returns a slice that is never nil: []T{} for an empty input,
\* else the result of the loop, made by make([]T, 0).
Intersect(a, b) ==
  IF Len(a) = 0 \/ Len(b) = 0
  THEN [isNil |-> FALSE, list |-> <<>>]
  ELSE [isNil |-> FALSE, list |-> intersectLoop(a, mapBOf(b), 1, {}, <<>>)]

InitIntersect ==
  /\ SetUnused
  /\ NoChan
  /\ iter = NoIter
  /\ runner = NoRunner
  /\ \E a \in SectLists, b \in SectLists :
       isect = [a |-> a, b |-> b, called |-> FALSE]

IntersectCall ==
  /\ ~isect.called
  /\ isect' = [a |-> isect.a, b |-> isect.b, called |-> TRUE,
               result |-> Intersect(isect.a, isect.b)]
  /\ UNCHANGED <<setvars, trio, chanvars, iter, runner>>

SpecIntersect == InitIntersect /\ [][IntersectCall]_vars

\* ---------------------------------------------- run.CancelOnFirstError
\* What the functions handed to CancelOnFirstError return.
FuncResults == {Nil, ErrorOf("func error")}
FuncLists == SeqsUpTo(FuncResults, MaxFuncs)

\* The goroutine of a function is at "run", "send" or "done"; "none" where
\* the call has fewer functions.
\* CancelOnFirstError(ctx, funcs...): nil at once without functions; else
\* Run makes errors := make(chan error, runtime.NumCPU()) and starts one
\* goroutine per function, and the caller ranges over the channel.
InitRunner ==
  /\ SetUnused
  /\ NoChan
  /\ iter = NoIter
  /\ isect = NoIntersect
  /\ \E funcs \in FuncLists :
       runner = [funcs |-> funcs,
                 pc |-> [k \in 1..MaxFuncs |->
                          IF k <= Len(funcs) THEN "run" ELSE "none"],
                 errors |-> <<>>,
                 closed |-> FALSE,
                 caller |-> IF funcs = <<>> THEN "returned" ELSE "range",
                 err |-> Nil]

\* run(ctx) returns in its goroutine, which goes on to send the result.
FuncReturns(k) ==
  /\ runner.pc[k] = "run"
  /\ runner' = [runner EXCEPT !.pc[k] = "send"]
  /\ UNCHANGED <<setvars, trio, chanvars, iter, isect>>

\* errors <- run(ctx), then the deferred wg.Done(): the send needs room in
\* the channel's buffer of runtime.NumCPU() results.
FuncSends(k) ==
  /\ runner.pc[k] = "send"
  /\ Len(runner.errors) < NumCPU
  /\ runner' = [runner EXCEPT !.pc[k] = "done",
                              !.errors = Append(@, runner.funcs[k])]
  /\ UNCHANGED <<setvars, trio, chanvars, iter, isect>>

\* go func() { wg.Wait(); close(errors) }()
WaitAndClose ==
  /\ runner.funcs # <<>>
  /\ ~runner.closed
  /\ \A k \in 1..Len(runner.funcs) : runner.pc[k] = "done"
  /\ runner' = [runner EXCEPT !.closed = TRUE]
  /\ UNCHANGED <<setvars, trio, chanvars, iter, isect>>

\* for err := range Run(ctx, funcs...) { if err != nil { return err } }
RangeReceives ==
  /\ runner.caller = "range"
  /\ runner.errors # <<>>
  /\ runner' = IF Head(runner.errors) # Nil
               THEN [runner EXCEPT !.errors = Tail(@), !.caller = "returned",
                                   !.err = Head(runner.errors)]
               ELSE [runner EXCEPT !.errors = Tail(@)]
  /\ UNCHANGED <<setvars, trio, chanvars, iter, isect>>

\* The range loop ends when the channel is closed and empty: return nil.
RangeOver ==
  /\ runner.caller = "range"
  /\ runner.errors = <<>>
  /\ runner.closed
  /\ runner' = [runner EXCEPT !.caller = "returned"]
  /\ UNCHANGED <<setvars, trio, chanvars, iter, isect>>

NextRunner ==
  \/ \E k \in 1..MaxFuncs : FuncReturns(k)
  \/ \E k \in 1..MaxFuncs : FuncSends(k)
  \/ WaitAndClose
  \/ RangeReceives
  \/ RangeOver

SpecRunner == InitRunner /\ [][NextRunner]_vars

\* Every function returns, and every goroutine that can step does.
RunnerFairness ==
  /\ \A k \in 1..MaxFuncs : WF_vars(FuncReturns(k) \/ FuncSends(k))
  /\ WF_vars(WaitAndClose)
  /\ WF_vars(RangeReceives \/ RangeOver)

SpecRunnerLive == SpecRunner /\ RunnerFairness

NextText ==
  \/ MarshalText("orig")
  \/ last = Idle /\ \E text \in Texts : UnmarshalText("orig", text)
  \/ last = Idle /\ \E element \in RawStrs : Contains("orig", element)
  \/ Length("orig")
  \/ Return(FALSE)

SpecText == InitText /\ [][NextText]_vars

\* ------------------------------------------- goroutines and the mutex
\* Every method is  s.mux.Lock(); defer s.mux.Unlock(); body.  A goroutine is
\* idle, waiting in Lock ("lock"), inside the body ("body"), or at the
\* deferred Unlock with its result computed ("unlock").
U(n, nm) == [id |-> n, name |-> nm]
StrBatches == {<<<<"a">>>>, <<<<"a">>, <<"b">>>>}
UserBatches == {<<U(1, "b")>>, <<U(1, "a"), U(2, "a")>>}
Batches(k) == IF k = "Set" THEN StrBatches ELSE UserBatches
ConcTexts == {<<"b", ",", " ", "a">>}
ConcDocs == {jsonArray(<<U(2, "a"), U(1, "b")>>, 1, <<Tok("[")>>), <<Tok("{"), Tok("}")>>}

\* What a goroutine is about to return: nothing yet, or a value.
Void == <<>>
Value(r) == <<r>>

ConcCalls(k) ==
  LET of(op, S) == {[op |-> op, args |-> a] : a \in S}
  IN of("Add", Batches(k))
     \cup of("Remove", IF k = "SetHashCode"
                       THEN {b \in Batches(k) : Len(b) = 1} ELSE Batches(k))
     \cup of("Contains", {<<b[1]>> : b \in Batches(k)})
     \cup (IF k = "SetHashCode" THEN {}
           ELSE of("ContainsAll", Batches(k)) \cup of("ContainsAny", Batches(k)))
     \cup of("Length", {<<>>})
     \cup of("Slice", {<<>>})
     \cup (IF k = "SetHashCode" THEN {}
           ELSE of("Strings", {<<>>}) \cup of("String", {<<>>}))
     \cup (IF k = "SetEqual" THEN of("MarshalJSON", {<<>>}) ELSE {})
     \cup (IF k = "Set" THEN of("UnmarshalText", ConcTexts) ELSE {})
     \cup (IF k = "SetEqual" THEN of("UnmarshalJSON", ConcDocs) ELSE {})

Mutating(op) == op \in {"Add", "Remove", "UnmarshalText", "UnmarshalJSON"}

\* Variant of Lock that does not wait for the holder.
CanLockAlways(m) == TRUE

\* sync.Mutex.Lock returns only when the mutex is not held.
CanLock(m) == m = 0

\* Variant of Add/Remove that takes the lock once per element.
LockedPassesPerElement(elements) ==
  IF elements = <<>> THEN <<elements>>
  ELSE [n \in 1..Len(elements) |-> <<elements[n]>>]

\* Add and Remove lock once and loop over all their elements inside.
LockedPasses(elements) == <<elements>>

\* What the body works through, set up before the lock is taken.
PassesOf(c) ==
  CASE c.op \in {"Add", "Remove"} -> LockedPasses(c.args)
    [] c.op = "UnmarshalText" -> <<FieldsFunc(c.args, 1, <<>>, <<>>)>>
    [] c.op = "UnmarshalJSON" -> <<jsonUnmarshal(c.args).elements>>
    [] OTHER -> <<c.args>>

\* One iteration of the loop of Add.
addOne(k, data, element) ==
  CASE k = "Set" -> data \cup {element}
    [] k = "SetEqual" ->
         IF contains(data, element, 1) THEN data ELSE Append(data, element)
    [] k = "SetHashCode" -> MapPut(data, HashCode(element), element)

\* One iteration of the loop of set.Remove; the delete of setHashCode.Remove.
deleteOne(k, data, element) ==
  CASE k = "Set" -> data \ {element}
    [] k = "SetHashCode" -> MapDelete(data, HashCode(element))

\* Variant of UnmarshalJSON that locks before it looks at the decode error.
decodeFailsUnseen(c) == FALSE

\* if err := json.Unmarshal(data, &elements); err != nil { return err }
decodeFails(c) == c.op = "UnmarshalJSON" /\ jsonUnmarshal(c.args).err

\* A goroutine calls a method. UnmarshalJSON decodes first and returns the
\* decode error without touching the set.
Invoke(g, c) ==
  /\ gpc[g] = "idle"
  /\ IF decodeFails(c)
     THEN /\ gret' = [gret EXCEPT ![g] = Value("error")]
          /\ UNCHANGED <<gpc, gcall, gpass>>
     ELSE /\ gpc' = [gpc EXCEPT ![g] = "lock"]
          /\ gcall' = [gcall EXCEPT ![g] = c]
          /\ gpass' = [gpass EXCEPT ![g] = PassesOf(c)]
          /\ gret' = [gret EXCEPT ![g] = Void]
  /\ UNCHANGED <<kind, store, seqvars, mux, gi, gacc, snap, committed, sessvars>>

Lock(g) ==
  /\ gpc[g] = "lock"
  /\ CanLock(mux)
  /\ mux' = g
  /\ gpc' = [gpc EXCEPT ![g] = "body"]
  /\ gi' = [gi EXCEPT ![g] =
              IF gcall[g].op \in {"UnmarshalText", "UnmarshalJSON"} THEN 0 ELSE 1]
  /\ gacc' = [gacc EXCEPT ![g] = <<>>]
  /\ snap' = [snap EXCEPT ![g] =
                IF gpass[g] = PassesOf(gcall[g]) THEN store[1] ELSE @]
  /\ UNCHANGED <<kind, store, seqvars, gcall, gpass, gret, committed, sessvars>>

At(g, op) == gpc[g] = "body" /\ gcall[g].op = op
Cur(g) == Head(gpass[g])

StepTo(g, data, nilv, pcv, i, acc, r) ==
  /\ store' = [store EXCEPT ![1] = data]
  /\ isNil' = nilv
  /\ gpc' = [gpc EXCEPT ![g] = pcv]
  /\ gi' = [gi EXCEPT ![g] = i]
  /\ gacc' = [gacc EXCEPT ![g] = acc]
  /\ gret' = [gret EXCEPT ![g] = r]
  /\ UNCHANGED <<kind, ref, made, last, ret, pre, prev, held>>
  /\ UNCHANGED <<mux, gcall, gpass, snap, committed, sessvars>>

\* A statement that appends to s.data or leaves it alone.
Step(g, data, pcv, i, acc, r) ==
  StepTo(g, data, isNil /\ LengthOp(kind, data) = 0, pcv, i, acc, r)

\* A statement that assigns a made slice or map to s.data.
StepMade(g, data, pcv, i, acc, r) ==
  StepTo(g, data, makeIsNil(LengthOp(kind, data)), pcv, i, acc, r)

StepAdd(g) ==
  /\ At(g, "Add")
  /\ IF gi[g] > Len(Cur(g))
     THEN Step(g, store[1], "unlock", gi[g], gacc[g], Void)
     ELSE Step(g, addOne(kind, store[1], Cur(g)[gi[g]]), "body", gi[g] + 1,
               gacc[g], Void)

\* set / setHashCode: one delete per element. setEqual: one pass over s.data
\* collecting the elements to keep in result, then s.data = result.
StepRemove(g) ==
  /\ At(g, "Remove")
  /\ IF kind = "SetEqual"
     THEN IF gi[g] > Len(store[1])
          THEN StepMade(g, gacc[g], "unlock", gi[g], gacc[g], Void)
          ELSE Step(g, store[1], "body", gi[g] + 1,
                    IF shouldRemove(store[1][gi[g]], Cur(g), 1)
                    THEN gacc[g] ELSE Append(gacc[g], store[1][gi[g]]),
                    Void)
     ELSE IF gi[g] > Len(Cur(g))
          THEN Step(g, store[1], "unlock", gi[g], gacc[g], Void)
          ELSE Step(g, deleteOne(kind, store[1], Cur(g)[gi[g]]), "body",
                    gi[g] + 1, gacc[g], Void)

StepContains(g) ==
  /\ At(g, "Contains")
  /\ Step(g, store[1], "unlock", gi[g], gacc[g],
          Value(ContainsOp(kind, store[1], Cur(g)[1])))

StepContainsAll(g) ==
  /\ At(g, "ContainsAll")
  /\ IF gi[g] > Len(Cur(g))
     THEN Step(g, store[1], "unlock", gi[g], gacc[g], Value(TRUE))
     ELSE IF ~ContainsOp(kind, store[1], Cur(g)[gi[g]])
          THEN Step(g, store[1], "unlock", gi[g], gacc[g], Value(FALSE))
          ELSE Step(g, store[1], "body", gi[g] + 1, gacc[g], gret[g])

StepContainsAny(g) ==
  /\ At(g, "ContainsAny")
  /\ IF gi[g] > Len(Cur(g))
     THEN Step(g, store[1], "unlock", gi[g], gacc[g], Value(FALSE))
     ELSE IF ContainsOp(kind, store[1], Cur(g)[gi[g]])
          THEN Step(g, store[1], "unlock", gi[g], gacc[g], Value(TRUE))
          ELSE Step(g, store[1], "body", gi[g] + 1, gacc[g], gret[g])

StepLength(g) ==
  /\ At(g, "Length")
  /\ Step(g, store[1], "unlock", gi[g], gacc[g], Value(LengthOp(kind, store[1])))

StepSlice(g) ==
  /\ At(g, "Slice")
  /\ \E r \in SliceOp(kind, store[1]) :
       Step(g, store[1], "unlock", gi[g], gacc[g], Value(r))

StepStrings(g) ==
  /\ At(g, "Strings")
  /\ \E r \in StringsOp(kind, store[1]) :
       Step(g, store[1], "unlock", gi[g], gacc[g], Value(r))

\* String: s.Strings() takes the lock and releases it; String itself does
\* not lock, and formats what Strings returned.
StepString(g) ==
  /\ At(g, "String")
  /\ \E r \in StringOp(kind, store[1]) :
       Step(g, store[1], "unlock", gi[g], gacc[g], Value(r))

StepMarshalJSON(g) ==
  /\ At(g, "MarshalJSON")
  /\ Step(g, store[1], "unlock", gi[g], gacc[g],
          Value(setEqualMarshalJSON(store[1], isNil)))

\* UnmarshalText / UnmarshalJSON: s.data = make(...), then one element per
\* iteration of the loop.
StepUnmarshal(g) ==
  /\ gpc[g] = "body"
  /\ gcall[g].op \in {"UnmarshalText", "UnmarshalJSON"}
  /\ IF gi[g] = 0
     THEN StepMade(g, EmptyOf(kind), "body", 1, gacc[g], Void)
     ELSE IF gi[g] > Len(Cur(g))
          THEN Step(g, store[1], "unlock", gi[g], gacc[g], Value("nil"))
          ELSE IF gcall[g].op = "UnmarshalText"
               THEN LET trimmed == TrimSpace(Cur(g)[gi[g]])
                    IN Step(g, IF trimmed # <<>> THEN store[1] \cup {trimmed}
                                                 ELSE store[1],
                            "body", gi[g] + 1, gacc[g], Void)
               ELSE Step(g, IF ~contains(store[1], Cur(g)[gi[g]], 1)
                            THEN Append(store[1], Cur(g)[gi[g]]) ELSE store[1],
                         "body", gi[g] + 1, gacc[g], Void)

\* Variant of a method that returns without releasing the mutex.
muxUnlockSkipped(m) == m

\* s.mux.Unlock()
muxUnlock(m) == 0

\* The deferred s.mux.Unlock(), after which the method returns.
Unlock(g) ==
  /\ gpc[g] = "unlock"
  /\ mux' = muxUnlock(mux)
  /\ IF Len(gpass[g]) > 1
     THEN /\ gpass' = [gpass EXCEPT ![g] = Tail(@)]
          /\ gpc' = [gpc EXCEPT ![g] = "lock"]
          /\ UNCHANGED <<gcall, gi, gacc, gret, snap, committed>>
     ELSE /\ gpass' = [gpass EXCEPT ![g] = <<>>]
          /\ gpc' = [gpc EXCEPT ![g] = "idle"]
          /\ gcall' = [gcall EXCEPT ![g] = NoCall]
          /\ gi' = [gi EXCEPT ![g] = 0]
          /\ gacc' = [gacc EXCEPT ![g] = <<>>]
          /\ gret' = [gret EXCEPT ![g] = Void]
          /\ snap' = [snap EXCEPT ![g] = EmptyOf(kind)]
          /\ committed' = IF Mutating(gcall[g].op) THEN store[1] ELSE committed
  /\ UNCHANGED <<kind, store, seqvars, sessvars>>

NextConc ==
  \/ \E g \in Procs, c \in ConcCalls(kind) : Invoke(g, c)
  \/ \E g \in Procs : Lock(g)
  \/ \E g \in Procs : StepAdd(g)
  \/ \E g \in Procs : StepRemove(g)
  \/ \E g \in Procs : StepContains(g)
  \/ \E g \in Procs : StepContainsAll(g)
  \/ \E g \in Procs : StepContainsAny(g)
  \/ \E g \in Procs : StepLength(g)
  \/ \E g \in Procs : StepSlice(g)
  \/ \E g \in Procs : StepStrings(g)
  \/ \E g \in Procs : StepString(g)
  \/ \E g \in Procs : StepMarshalJSON(g)
  \/ \E g \in Procs : StepUnmarshal(g)
  \/ \E g \in Procs : Unlock(g)

SpecConc == InitConc /\ [][NextConc]_vars

\* The body of a method and its deferred Unlock run on once begun; a Lock
\* that is possible again and again returns (sync.Mutex hands the mutex to
\* a goroutine that has waited). Nothing obliges a goroutine to call.
\* Every such step moves the goroutine's position.
ConcFairness ==
  \A g \in Procs :
    /\ SF_<<gpc, gi>>(Lock(g))
    /\ WF_<<gpc, gi>>(
         \/ StepAdd(g) \/ StepRemove(g) \/ StepContains(g)
         \/ StepContainsAll(g) \/ StepContainsAny(g) \/ StepLength(g)
         \/ StepSlice(g) \/ StepStrings(g) \/ StepString(g)
         \/ StepMarshalJSON(g) \/ StepUnmarshal(g) \/ Unlock(g))

SpecConcLive == SpecConc /\ ConcFairness

\* ------------------------------------------------------------- set.Each
\* Each of a set takes the elements as Slice() does, under the lock, and
\* then calls fn for one element after the other with the lock released.
\* fn calls a method of the same set with the element.
EachFns == {"Add", "Remove", "Contains", "Length"}

\* The goroutine g is inside Each.
InEach(g) == iter.fn = "SetEach" /\ iter.g = g /\ iter.pc # "returned"

\* Another goroutine is inside Each: the calls of g run beside the traversal.
Traversing(g) == iter.fn = "SetEach" /\ iter.g # g /\ iter.pc # "returned"

EachInvoke(g, cb) ==
  /\ iter = NoIter
  /\ gpc[g] = "idle"
  /\ gpc' = [gpc EXCEPT ![g] = "lock"]
  /\ gcall' = [gcall EXCEPT ![g] = [op |-> "Each", args |-> <<>>]]
  /\ gpass' = [gpass EXCEPT ![g] = <<<<>>>>]
  /\ gret' = [gret EXCEPT ![g] = Void]
  /\ iter' = [fn |-> "SetEach", g |-> g, cb |-> cb, pc |-> "slice",
              list |-> <<>>, i |-> 1]
  /\ UNCHANGED <<kind, store, seqvars, mux, gi, gacc, snap, committed, trio,
                 chanvars, isect, runner>>

\* The elements are copied while the lock is held.
EachSnapshot(g) ==
  /\ At(g, "Each")
  /\ \E r \in SliceOp(kind, store[1]) :
       Step(g, store[1], "unlock", gi[g], r, Void)

\* Variant of Each that keeps the lock while it calls fn.
eachUnlockLater(m) == m

\* The lock is released before fn is called for the first element.
eachUnlock(m) == 0

EachUnlock(g) ==
  /\ gpc[g] = "unlock"
  /\ gcall[g].op = "Each"
  /\ mux' = eachUnlock(mux)
  /\ iter' = [iter EXCEPT !.pc = "fn", !.list = gacc[g]]
  /\ gpass' = [gpass EXCEPT ![g] = <<>>]
  /\ gpc' = [gpc EXCEPT ![g] = "idle"]
  /\ gcall' = [gcall EXCEPT ![g] = NoCall]
  /\ gi' = [gi EXCEPT ![g] = 0]
  /\ gacc' = [gacc EXCEPT ![g] = <<>>]
  /\ snap' = [snap EXCEPT ![g] = EmptyOf(kind)]
  /\ UNCHANGED <<kind, store, seqvars, gret, committed, trio, chanvars, isect,
                 runner>>

\* fn(ctx, element) is called for the next element and calls the set.
EachCall(g) ==
  /\ InEach(g)
  /\ iter.pc = "fn"
  /\ gpc[g] = "idle"
  /\ iter.i <= Len(iter.list)
  /\ LET c == [op |-> iter.cb,
               args |-> IF iter.cb = "Length" THEN <<>>
                        ELSE <<iter.list[iter.i]>>]
     IN /\ gpc' = [gpc EXCEPT ![g] = "lock"]
        /\ gcall' = [gcall EXCEPT ![g] = c]
        /\ gpass' = [gpass EXCEPT ![g] = PassesOf(c)]
        /\ gret' = [gret EXCEPT ![g] = Void]
  /\ iter' = [iter EXCEPT !.i = @ + 1]
  /\ UNCHANGED <<kind, store, seqvars, mux, gi, gacc, snap, committed, trio,
                 chanvars, isect, runner>>

\* fn has returned for the last element: Each returns nil.
EachReturn(g) ==
  /\ InEach(g)
  /\ iter.pc = "fn"
  /\ gpc[g] = "idle"
  /\ iter.i > Len(iter.list)
  /\ iter' = [iter EXCEPT !.pc = "returned"]
  /\ UNCHANGED <<setvars, trio, chanvars, isect, runner>>

NextSetEach ==
  \/ \E g \in Procs, cb \in EachFns : EachInvoke(g, cb)
  \/ \E g \in Procs : EachSnapshot(g)
  \/ \E g \in Procs : EachUnlock(g)
  \/ \E g \in Procs : EachCall(g)
  \/ \E g \in Procs : EachReturn(g)
  \/ \E g \in Procs, c \in ConcCalls(kind) :
       Traversing(g) /\ c.op \in EachFns /\ Invoke(g, c)
  \/ \E g \in Procs : Lock(g)
  \/ \E g \in Procs : StepAdd(g)
  \/ \E g \in Procs : StepRemove(g)
  \/ \E g \in Procs : StepContains(g)
  \/ \E g \in Procs : StepLength(g)
  \/ \E g \in Procs : gcall[g].op # "Each" /\ Unlock(g)

SpecSetEach == InitConc /\ [][NextSetEach]_vars

EachFairness ==
  \A g \in Procs :
    WF_<<gpc, gi, iter>>(\/ EachSnapshot(g) \/ EachUnlock(g)
                         \/ EachCall(g) \/ EachReturn(g))

SpecSetEachLive == SpecSetEach /\ ConcFairness /\ EachFairness

\* ============================================================ properties
\* The elements a set holds, and the identity strategy of its type.
Members(k, data) ==
  CASE k = "Set" -> data
    [] k = "SetEqual" -> Range(data)
    [] k = "SetHashCode" -> {data[h] : h \in DOMAIN data}

Same(k, a, b) ==
  CASE k = "Set" -> a = b
    [] k = "SetEqual" -> Equal(a, b)
    [] k = "SetHashCode" -> HashCode(a) = HashCode(b)

Has(k, data, x) == \E m \in Members(k, data) : Same(k, m, x)

\* The number of elements of S that are distinct under the identity strategy.
Classes(k, S) == Cardinality({{y \in S : Same(k, x, y)} : x \in S})

\* No two stored elements (two slice positions, two map entries) are the same.
PairwiseDistinct(k, data) ==
  CASE k = "Set" -> \A x, y \in data : Same(k, x, y) => x = y
    [] k = "SetEqual" ->
         \A p, q \in 1..Len(data) : p # q => ~Same(k, data[p], data[q])
    [] k = "SetHashCode" ->
         \A h, g \in DOMAIN data : h # g => ~Same(k, data[h], data[g])

\* Same Length() and the same Contains result for every element.
SameLengthAndMembership(k, d1, d2) ==
  /\ LengthOp(k, d1) = LengthOp(k, d2)
  /\ \A e \in Elems(k) \cup Members(k, d1) \cup Members(k, d2) :
       ContainsOp(k, d1, e) = ContainsOp(k, d2, e)

\* C1: in every set variant the stored elements are pairwise distinct under
\* the identity strategy and Length() is the number of distinct elements held;
\* after the constructor or an Add it is the number of distinct elements among
\* those held before and those given, whatever their order or repetition.
C1_DistinctAndLength ==
  /\ PairwiseDistinct(kind, Data("orig"))
  /\ LengthOp(kind, Data("orig")) = Classes(kind, Members(kind, Data("orig")))
  /\ last.op \in {"New", "Add"} =>
       LengthOp(kind, Data("orig")) =
         Classes(kind, Members(kind, pre["orig"]) \cup Range(last.args))

C1_Witness ==
  /\ kind = "SetEqual"
  /\ last.op = "Add"
  /\ Len(last.args) = 2
  /\ last.args[1] # last.args[2]
  /\ Equal(last.args[1], last.args[2])
  /\ LengthOp(kind, pre["orig"]) = 1
  /\ LengthOp(kind, Data("orig")) = 2

AddThenRemove == last.op = "Remove" /\ prev # <<>> /\ last.args = <<prev[1]>>

\* C4 as stated: Add(x) followed by Remove(x) gives back the Length() and the
\* Contains results the set had before the Add.
C4_Original ==
  AddThenRemove => SameLengthAndMembership(kind, Data("orig"), prev[2])

\* C4: when x was not contained before, Add(x) followed by Remove(x) gives
\* back the Length() and the Contains results the set had before the Add.
C4_AddRemoveOfAbsent ==
  (AddThenRemove /\ ~ContainsOp(kind, prev[2], prev[1])) =>
    SameLengthAndMembership(kind, Data("orig"), prev[2])

C4_Witness ==
  /\ AddThenRemove
  /\ ~ContainsOp(kind, prev[2], prev[1])
  /\ kind = "SetEqual"
  /\ LengthOp(kind, prev[2]) = 1
  /\ LengthOp(kind, pre["orig"]) = 2
  /\ LengthOp(kind, Data("orig")) = 1

RemoveOfAbsent ==
  /\ last.op = "Remove"
  /\ last.args # <<>>
  /\ \A x \in Range(last.args) : ~ContainsOp(kind, pre["orig"], x)

\* C5: Remove of elements that are not in the set changes neither Length()
\* nor the membership of any element, and returns normally.
C5_RemoveAbsentIsNoOp ==
  RemoveOfAbsent =>
    /\ SameLengthAndMembership(kind, Data("orig"), pre["orig"])
    /\ Members(kind, Data("orig")) = Members(kind, pre["orig"])
    /\ ret = "void"

C5_Witness ==
  /\ RemoveOfAbsent
  /\ kind = "SetEqual"
  /\ Len(last.args) = 2
  /\ LengthOp(kind, Data("orig")) = 1

\* C6: for Set and SetEqual, ContainsAll is true exactly when every argument
\* is a member and ContainsAny exactly when some argument is; so ContainsAll()
\* is true and ContainsAny() is false for any contents.
C6_ContainsAllAny ==
  /\ last.op = "ContainsAll" =>
       ret = (\A x \in Range(last.args) : Has(kind, Data("orig"), x))
  /\ last.op = "ContainsAny" =>
       ret = (\E x \in Range(last.args) : Has(kind, Data("orig"), x))
  /\ (last.op = "ContainsAll" /\ last.args = <<>>) => ret = TRUE
  /\ (last.op = "ContainsAny" /\ last.args = <<>>) => ret = FALSE

C6_Witness ==
  /\ last.op = "ContainsAny"
  /\ last.args = <<>>
  /\ ret = FALSE
  /\ LengthOp(kind, Data("orig")) = 2

\* The position of the last argument with the same hash code as elements[p].
LastSameHash(elements, p) ==
  CHOOSE q \in p..Len(elements) :
    /\ HashCode(elements[q]) = HashCode(elements[p])
    /\ \A r \in (q + 1)..Len(elements) : HashCode(elements[r]) # HashCode(elements[p])

\* C9: in SetHashCode the element added last under a hash code is the one
\* stored: after two elements with one hash code were added to an empty set,
\* Length() is 1 and the stored element is the second; Slice() returns exactly
\* the stored elements.
C9_LastWriteWins ==
  kind = "SetHashCode" =>
    /\ last.op \in {"New", "Add"} =>
         /\ \A p \in 1..Len(last.args) :
              Data("orig")[HashCode(last.args[p])] =
                last.args[LastSameHash(last.args, p)]
         /\ ret = "void"
    /\ (/\ last.op \in {"New", "Add"}
        /\ Len(last.args) = 2
        /\ DOMAIN pre["orig"] = {}
        /\ HashCode(last.args[1]) = HashCode(last.args[2])) =>
         /\ LengthOp(kind, Data("orig")) = 1
         /\ Members(kind, Data("orig")) = {last.args[2]}
    /\ (last.op = "Add" /\ Len(last.args) = 1 /\ LengthOp(kind, pre["orig"]) = 1
        /\ HashCode(last.args[1]) \in DOMAIN pre["orig"]) =>
         /\ LengthOp(kind, Data("orig")) = 1
         /\ Members(kind, Data("orig")) = {last.args[1]}
    /\ last.op = "Slice" =>
         /\ Range(ret) = Members(kind, Data("orig"))
         /\ Len(ret) = LengthOp(kind, Data("orig"))

C9_Witness ==
  /\ kind = "SetHashCode"
  /\ last.op = "Add"
  /\ Len(last.args) = 1
  /\ LengthOp(kind, pre["orig"]) = 1
  /\ HashCode(last.args[1]) \in DOMAIN pre["orig"]
  /\ pre["orig"][HashCode(last.args[1])] # last.args[1]
  /\ Members(kind, Data("orig")) = {last.args[1]}

\* C10 as stated: SetHashCode.Add leaves an element stored under the hash
\* code of an added element in place, and the set unchanged.
C10_Original ==
  (kind = "SetHashCode" /\ last.op = "Add") =>
    \A h \in DOMAIN pre["orig"] :
      h \in DOMAIN Data("orig") /\ Data("orig")[h] = pre["orig"][h]

\* The elements of S that are not the same as any of the given ones.
Minus(k, S, elements) ==
  {m \in S : \A x \in Range(elements) : ~Same(k, m, x)}

\* C7: Clone() returns a set with the receiver's membership and leaves the
\* receiver as it is; afterwards an Add or Remove on either of the two sets
\* leaves the data, membership and Length() of the other unchanged.
C7_CloneIndependent ==
  /\ last.op = "Clone" =>
       /\ Members(kind, Data("copy")) = Members(kind, pre["orig"])
       /\ SameLengthAndMembership(kind, Data("copy"), pre["orig"])
       /\ Data("orig") = pre["orig"]
  /\ (last.op \in {"Add", "Remove"} /\ ref["copy"] # 0) =>
       /\ Data(Other(last.inst)) = pre[Other(last.inst)]
       /\ SameLengthAndMembership(kind, Data(Other(last.inst)), pre[Other(last.inst)])
       /\ Data(last.inst) = IF last.op = "Add"
                            THEN AddOp(kind, pre[last.inst], last.args)
                            ELSE RemoveOp(kind, pre[last.inst], last.args)

C7_Witness ==
  /\ made["copy"] = "Clone"
  /\ last.op = "Add"
  /\ last.inst = "copy"
  /\ pre["copy"] = pre["orig"]
  /\ LengthOp(kind, pre["copy"]) = 1
  /\ LengthOp(kind, Data("copy")) = 2
  /\ LengthOp(kind, Data("orig")) = 1

\* C8: Without(xs...) returns a new set holding exactly the receiver's
\* elements that are none of xs, and leaves the receiver's data, membership
\* and Length() unchanged, also when an earlier Without result exists.
C8_WithoutPure ==
  last.op = "Without" =>
    /\ Members(kind, Data("copy")) = Minus(kind, Members(kind, pre["orig"]), last.args)
    /\ LengthOp(kind, Data("copy")) = Cardinality(Members(kind, Data("copy")))
    /\ PairwiseDistinct(kind, Data("copy"))
    /\ Data("orig") = pre["orig"]
    /\ SameLengthAndMembership(kind, Data("orig"), pre["orig"])

C8_Witness ==
  /\ last.op = "Without"
  /\ Len(last.args) = 2
  /\ ContainsOp(kind, pre["orig"], last.args[1])
  /\ ~ContainsOp(kind, pre["orig"], last.args[2])
  /\ LengthOp(kind, pre["copy"]) = 2
  /\ LengthOp(kind, Data("copy")) = 1
  /\ LengthOp(kind, Data("orig")) = 2

InCS(g) == gpc[g] \in {"body", "unlock"}

\* What a call does to the data d, and what it may return, when run alone.
Effect(k, c, d) ==
  CASE c.op = "Add" -> AddOp(k, d, c.args)
    [] c.op = "Remove" -> RemoveOp(k, d, c.args)
    [] c.op = "UnmarshalText" -> setUnmarshalText(c.args)
    [] c.op = "UnmarshalJSON" -> setEqualUnmarshalJSON(d, c.args)
    [] OTHER -> d

Results(k, c, d) ==
  CASE c.op = "Contains" -> {Value(ContainsOp(k, d, c.args[1]))}
    [] c.op = "ContainsAll" -> {Value(ContainsAllOp(k, d, c.args))}
    [] c.op = "ContainsAny" -> {Value(ContainsAnyOp(k, d, c.args))}
    [] c.op = "Length" -> {Value(LengthOp(k, d))}
    [] c.op = "Slice" -> {Value(r) : r \in SliceOp(k, d)}
    [] c.op = "Strings" -> {Value(r) : r \in StringsOp(k, d)}
    [] c.op = "String" -> {Value(r) : r \in StringOp(k, d)}
    [] c.op = "MarshalJSON" -> {Value(setEqualMarshalJSON(d, isNil))}
    [] c.op \in {"UnmarshalText", "UnmarshalJSON"} -> {Value("nil")}
    [] OTHER -> {Void}

\* C2: at most one goroutine is between Lock and Unlock, it is the holder of
\* the mutex, and when it reaches Unlock the data and its result are what the
\* call run alone on the data found at Lock gives: the calls take effect one
\* after the other in the order in which they took the lock.
C2_MutexAndAtomic ==
  /\ \A g, h \in Procs : (InCS(g) /\ InCS(h)) => g = h
  /\ \A g \in Procs : InCS(g) => mux = g
  /\ \A g \in Procs :
       (gpc[g] = "unlock" /\ Len(gpass[g]) = 1) =>
         /\ store[1] = Effect(kind, gcall[g], snap[g])
         /\ gret[g] \in Results(kind, gcall[g], snap[g])
  /\ (\A g \in Procs : ~InCS(g)) => store[1] = committed

C2_Witness ==
  \E g, h \in Procs :
    /\ gpc[g] = "unlock"
    /\ gcall[g].op = "Remove"
    /\ Len(gcall[g].args) = 2
    /\ LengthOp(kind, snap[g]) = 2
    /\ LengthOp(kind, store[1]) = 0
    /\ gpc[h] = "lock"
    /\ gcall[h].op = "Add"

\* A batch call that has applied part of its elements and not yet returned.
MidBatch(h) ==
  /\ gcall[h].op \in {"Add", "Remove"}
  /\ InCS(h) \/ (gpc[h] = "lock" /\ gpass[h] # PassesOf(gcall[h]))

Observer(g) == gcall[g].op \in {"Contains", "ContainsAll", "Length", "Slice"}

\* C3: while a Contains, ContainsAll, Length or Slice call reads the set, no
\* Add or Remove batch of another goroutine is under way: the data it reads
\* is the data a completed call left, and so is what it returns.
C3_BatchNotObservedPartially ==
  \A g \in Procs :
    (Observer(g) /\ InCS(g)) =>
      /\ \A h \in Procs \ {g} : ~MidBatch(h)
      /\ store[1] = committed
      /\ gpc[g] = "unlock" => gret[g] \in Results(kind, gcall[g], committed)

C3_Witness ==
  \E g, h \in Procs :
    /\ Observer(g)
    /\ gpc[g] = "lock"
    /\ gcall[h].op = "Add"
    /\ gpc[h] = "body"
    /\ Len(Cur(h)) = 2
    /\ gi[h] = 2
    /\ store[1] # committed

\* The first element of seq that is Equal to x.
FirstEqual(seq, x) ==
  seq[CHOOSE p \in 1..Len(seq) :
        Equal(seq[p], x) /\ \A q \in 1..(p - 1) : ~Equal(seq[q], x)]

\* The data holds base unchanged in its positions and, of the elements
\* offered one after the other, the first of each that are Equal.
FirstOccurrenceKept(data, base, elements) ==
  /\ Len(data) >= Len(base)
  /\ SubSeq(data, 1, Len(base)) = base
  /\ \A x \in Range(base \o elements) :
       /\ contains(data, x, 1)
       /\ FirstEqual(data, x) = FirstEqual(base \o elements, x)
  /\ \A p \in 1..Len(data) : contains(base \o elements, data[p], 1)

\* C11: in SetEqual the constructor, Add and UnmarshalJSON keep a stored
\* element, value and position, when an element Equal to it comes, and
\* discard the newcomer.
C11_FirstOccurrenceWins ==
  kind = "SetEqual" =>
    /\ last.op \in {"New", "Add"} =>
         FirstOccurrenceKept(Data("orig"), pre["orig"], last.args)
    /\ (last.op = "UnmarshalJSON" /\ ret = "nil") =>
         FirstOccurrenceKept(Data("orig"), <<>>, jsonUnmarshal(last.args).elements)

C11_Witness ==
  /\ kind = "SetEqual"
  /\ last.op = "Add"
  /\ Len(last.args) = 2
  /\ Len(pre["orig"]) = 1
  /\ Equal(last.args[2], pre["orig"][1])
  /\ last.args[2] # pre["orig"][1]
  /\ Len(Data("orig")) = 2
  /\ Data("orig")[1] = pre["orig"][1]

Pos(seq, x) == CHOOSE p \in 1..Len(seq) : seq[p] = x
Before(seq, x, y) == Pos(seq, x) < Pos(seq, y)

\* C12: in SetEqual an Add or Remove keeps the relative order of the elements
\* that stay, an Add puts the new elements after the old ones in the order of
\* the arguments, a Remove adds none; Slice() and MarshalJSON() list the
\* elements in the order of the data.
C12_InsertionOrder ==
  kind = "SetEqual" =>
    LET old == Range(pre["orig"])
        now == Range(Data("orig"))
    IN /\ last.op \in {"Add", "Remove"} =>
            \A x, y \in old \cap now :
              Before(Data("orig"), x, y) = Before(pre["orig"], x, y)
       /\ last.op = "Add" =>
            /\ old \subseteq now
            /\ \A x \in old, y \in now \ old : Before(Data("orig"), x, y)
            /\ \A x, y \in now \ old :
                 Before(Data("orig"), x, y) = Before(last.args, x, y)
       /\ last.op = "Remove" => now \subseteq old
       /\ last.op = "Slice" => ret = Data("orig")
       /\ last.op = "MarshalJSON" =>
            /\ ~jsonUnmarshal(ret).err
            /\ jsonUnmarshal(ret).elements = Data("orig")

C12_Witness ==
  /\ kind = "SetEqual"
  /\ last.op = "MarshalJSON"
  /\ Len(Data("orig")) = 2
  /\ Data("orig")[1].id = 2
  /\ jsonUnmarshal(ret).elements[1].id = 2

\* The elements of the data rendered with %v, in the order of the data.
RenderedInOrder(data) == [n \in 1..Len(data) |-> elementToString("SetEqual", data[n])]

\* "SetEqual[" e1 ", " e2 ... "]"
RECURSIVE CommaSpaceJoined(_)
CommaSpaceJoined(strs) ==
  IF strs = <<>> THEN <<>>
  ELSE IF Len(strs) = 1 THEN strs[1]
  ELSE strs[1] \o <<",", " ">> \o CommaSpaceJoined(Tail(strs))

Bracketed(strs) == <<"SetEqual[">> \o CommaSpaceJoined(strs) \o <<"]">>

\* C13 as stated: SetEqual.String() renders the elements in the order in
\* which they were added.
C13_Original ==
  (kind = "SetEqual" /\ last.op = "String") =>
    ret = Bracketed(RenderedInOrder(Data("orig")))

\* C13: SetEqual.String() renders every element once, the renderings in
\* ascending byte order, as "SetEqual[e1, e2, ...]", and "SetEqual[]" when
\* the set is empty.
C13_StringSorted ==
  (kind = "SetEqual" /\ last.op = "String") =>
    /\ \E p \in Perms(1..Len(Data("orig"))) :
         LET strs == [n \in 1..Len(p) |-> RenderedInOrder(Data("orig"))[p[n]]]
         IN /\ \A n \in 1..(Len(strs) - 1) : ~Less(strs[n + 1], strs[n])
            /\ ret = Bracketed(strs)
    /\ Data("orig") = <<>> => ret = <<"SetEqual[", "]">>

C13_Witness ==
  /\ kind = "SetEqual"
  /\ last.op = "String"
  /\ Len(Data("orig")) = 2
  /\ Data("orig")[1].id = 2
  /\ ret = Bracketed(<<RenderedInOrder(Data("orig"))[2],
                       RenderedInOrder(Data("orig"))[1]>>)

\* The comma-delimited tokens of text: the maximal runs without a comma.
TokensOf(text) ==
  {SubSeq(text, a, b) : <<a, b>> \in
     {ab \in (1..Len(text)) \X (1..Len(text)) :
        /\ ab[1] <= ab[2]
        /\ \A n \in ab[1]..ab[2] : text[n] # ","
        /\ ab[1] = 1 \/ text[ab[1] - 1] = ","
        /\ ab[2] = Len(text) \/ text[ab[2] + 1] = ","}}

\* A token without the white space around it.
Stripped(t) ==
  LET solid == {n \in 1..Len(t) : t[n] # " "}
  IN IF solid = {} THEN <<>>
     ELSE SubSeq(t, CHOOSE n \in solid : \A m \in solid : n <= m,
                    CHOOSE n \in solid : \A m \in solid : n >= m)

\* C14: Set.UnmarshalText(text) returns nil and leaves as members exactly the
\* non-empty whitespace-trimmed comma-delimited tokens of text, whatever the
\* set held before.
C14_UnmarshalTextReplaces ==
  (kind = "Set" /\ last.op = "UnmarshalText") =>
    /\ Data("orig") = {Stripped(t) : t \in TokensOf(last.args)} \ {<<>>}
    /\ ret = "nil"

C14_Witness ==
  /\ kind = "Set"
  /\ last.op = "UnmarshalText"
  /\ last.args = <<",", " ", "a">>
  /\ <<"b">> \in pre["orig"]
  /\ Data("orig") = {<<"a">>}

\* The elements of a JSON array, in any order.
ArrayItems(doc) == {doc[n].v : n \in {m \in 1..Len(doc) : doc[m].t = "val"}}

\* C15: in every set variant a successful UnmarshalJSON of an array leaves
\* as members exactly the elements of the array under the identity strategy,
\* one entry for each, whatever the set held before.
C15_UnmarshalJSONReplaces ==
  (last.op = "UnmarshalJSON" /\ ret = "nil") =>
    LET items == ArrayItems(last.args)
    IN /\ Members(kind, Data("orig")) \subseteq items
       /\ \A e \in Elems(kind) \cup Members(kind, pre["orig"]) \cup items :
            ContainsOp(kind, Data("orig"), e) =
              (\E x \in items : Same(kind, x, e))
       /\ PairwiseDistinct(kind, Data("orig"))
       /\ LengthOp(kind, Data("orig")) = Classes(kind, items)

C15_Witness ==
  /\ kind = "SetEqual"
  /\ last.op = "UnmarshalJSON"
  /\ ret = "nil"
  /\ Len(pre["orig"]) = 1
  /\ pre["orig"][1].id = 2
  /\ Cardinality(ArrayItems(last.args)) = 2
  /\ Len(Data("orig")) = 1
  /\ Data("orig")[1].id = 1

\* The set that a fresh empty Set holds after UnmarshalText of the text that
\* MarshalText returned has the membership and Length() of the set.
RoundTripsText ==
  LET fresh == setUnmarshalText(ret)
  IN /\ fresh = Data("orig")
     /\ SameLengthAndMembership("Set", fresh, Data("orig"))

\* An element that is not empty, holds no comma and has no white space at
\* its ends.
PlainToken(e) == e # <<>> /\ "," \notin Range(e) /\ Stripped(e) = e

\* C16 as stated: for any non-empty string Set, MarshalText and then
\* UnmarshalText into a fresh set gives the same membership and Length().
C16_Original ==
  (last.op = "MarshalText" /\ Data("orig") # {}) => RoundTripsText

\* C16: for a non-empty string Set whose elements are non-empty, hold no
\* comma and have no white space at their ends, MarshalText and then
\* UnmarshalText into a fresh set gives the same membership and Length().
C16_TextRoundTrip ==
  (/\ last.op = "MarshalText"
   /\ Data("orig") # {}
   /\ \A e \in Data("orig") : PlainToken(e)) => RoundTripsText

C16_Witness ==
  /\ last.op = "MarshalText"
  /\ Data("orig") = {<<"a">>, <<"b">>}
  /\ ret = <<"a", ",", "b">>
  /\ setUnmarshalText(ret) = Data("orig")

EmptyArray == <<Tok("["), Tok("]")>>

\* C18: whenever a set is empty, however it became so, the only document
\* MarshalJSON can return is the empty array [], not null; and that is what
\* a MarshalJSON call on an empty set has returned.
C18_EmptyIsArray ==
  LengthOp(kind, Data("orig")) = 0 =>
    /\ MarshalJSONOp(kind, Data("orig"), isNil) = {EmptyArray}
    /\ last.op = "MarshalJSON" => ret = EmptyArray

C18_Witness ==
  /\ kind = "SetEqual"
  /\ last.op = "Remove"
  /\ Len(pre["orig"]) = 2
  /\ Data("orig") = <<>>
  /\ ~isNil
  /\ MarshalJSONOp(kind, Data("orig"), isNil) = {EmptyArray}

\* What the caller's slice holds.
HeldView ==
  IF held.len <= Len(store[held.cell])
  THEN SubSeq(store[held.cell], 1, held.len)
  ELSE store[held.cell]

HeldOps == {"slice[k] = e", "slice = slice[:n-1]", "append"}

\* C19: the slice Slice() returned holds the elements of the set; whatever
\* the set does afterwards, the slice holds what it held and what the caller
\* wrote to it; and writing to, appending to or truncating the slice leaves
\* the set's data, and with it its membership, Length() and later Slice()
\* results, as they were.
C19_SliceIsCopy ==
  /\ held # NoSlice => HeldView = held.want
  /\ last.op = "Slice" =>
       /\ Range(ret) = Members(kind, Data("orig"))
       /\ Len(ret) = LengthOp(kind, Data("orig"))
       /\ Data("orig") = pre["orig"]
  /\ last.op \in HeldOps =>
       /\ Data("orig") = pre["orig"]
       /\ SameLengthAndMembership(kind, Data("orig"), pre["orig"])
       /\ SliceOp(kind, Data("orig")) = SliceOp(kind, pre["orig"])

C19_Witness ==
  /\ kind = "SetEqual"
  /\ last.op = "slice[k] = e"
  /\ held.len = 2
  /\ HeldView # Data("orig")
  /\ Len(Data("orig")) = 1
  /\ Data("orig") = pre["orig"]


\* The strings of values without the white space around them, the empty
\* ones left out.
TrimmedNonEmpty(values) == {Stripped(v) : v \in Range(values)} \ {<<>>}

NoEmptyOrPadded(data) == \A e \in data : e # <<>> /\ Stripped(e) = e

\* C20 as stated: ParseSetFromStrings and ParseSetFromString both trim each
\* input string and drop the empty ones, so the set is the one UnmarshalText
\* builds from the same tokens and has no empty or padded element.
C20_Original ==
  /\ last.op = "ParseSetFromStrings" =>
       /\ Data("orig") = TrimmedNonEmpty(last.args)
       /\ NoEmptyOrPadded(Data("orig"))
  /\ last.op = "ParseSetFromString" =>
       /\ Data("orig") = setUnmarshalText(last.args)
       /\ NoEmptyOrPadded(Data("orig"))

\* C20: ParseSetFromString builds the set UnmarshalText builds from the same
\* text, the trimmed non-empty tokens, with no empty or padded element;
\* ParseSetFromStrings adds each input string as it is, which is that set
\* exactly when no input string is empty or padded.
C20_ParsePolicy ==
  /\ last.op = "ParseSetFromString" =>
       /\ Data("orig") = setUnmarshalText(last.args)
       /\ Data("orig") = {Stripped(t) : t \in TokensOf(last.args)} \ {<<>>}
       /\ NoEmptyOrPadded(Data("orig"))
  /\ last.op = "ParseSetFromStrings" =>
       /\ Data("orig") = Range(last.args)
       /\ (Data("orig") = TrimmedNonEmpty(last.args))
            = NoEmptyOrPadded(Range(last.args))

C20_Witness ==
  /\ last.op = "ParseSetFromStrings"
  /\ last.args = <<<<" ", "a">>, <<>>>>
  /\ Data("orig") = {<<" ", "a">>, <<>>}
  /\ TrimmedNonEmpty(last.args) = {<<"a">>}


\* Sets of two variants answer Length() and Contains(x), x a plain user,
\* alike.
Interchangeable(k1, d1, k2, d2) ==
  /\ LengthOp(k1, d1) = LengthOp(k2, d2)
  /\ \A x \in PlainUsers : ContainsOp(k1, d1, x) = ContainsOp(k2, d2, x)

\* C21: when Equal coincides with == and HashCode is injective on the
\* elements used, a Set, a SetEqual and a SetHashCode that were given the
\* same Add and Remove calls have, after every call, the same Length() and
\* the same Contains(x) for every x.
C21_Interchangeable ==
  trio.univ = "plain" =>
    \A k1, k2 \in Kinds :
      Interchangeable(k1, trio.sets[k1], k2, trio.sets[k2])

C21_Witness ==
  /\ trio.univ = "plain"
  /\ trio.op = "Remove"
  /\ trio.args = <<[id |-> 1, name |-> "a"]>>
  /\ \A k \in Kinds :
       /\ LengthOp(k, trio.sets[k]) = 1
       /\ ContainsOp(k, trio.sets[k], [id |-> 2, name |-> "a"])
       /\ ~ContainsOp(k, trio.sets[k], [id |-> 1, name |-> "a"])

\* ------------------------------------------------------- channel helpers
Returned == outcome.returned

\* Whether inner is err or one of the errors err wraps, at any depth.
RECURSIVE Within(_, _)
Within(err, inner) ==
  \/ err = inner
  \/ \E k \in DOMAIN err.causes : Within(err.causes[k], inner)

IsPrefix(a, b) == Len(a) <= Len(b) /\ a = SubSeq(b, 1, Len(a))

\* C22: when getFn has emitted all its items and returned nil and ctx was
\* not cancelled, ChannelFnList returns the items in the order they were
\* emitted and a nil error, and ChannelFnCount returns their number and a
\* nil error, also when there are more items than the channel buffers.
C22_DrainCollectsAll ==
  (Returned /\ ~plan.fails /\ ~cancelled.caller) =>
    /\ fn = "ChannelFnList" =>
         outcome.err = Nil /\ ~outcome.nilList /\ outcome.list = plan.items
    /\ fn = "ChannelFnCount" =>
         outcome.err = Nil /\ outcome.count = Len(plan.items)

C22_Witness ==
  /\ fn = "ChannelFnList"
  /\ Returned
  /\ ~cancelled.caller
  /\ Len(plan.items) > ChanCap
  /\ plan.items[1] # plan.items[2]
  /\ outcome.list = plan.items
  /\ outcome.err = Nil

\* C23: when getFn returned an error or a goroutine saw the cancellation,
\* also after items were received, ChannelFnCount returns -1 and
\* ChannelFnList a nil list, with a non-nil error; a count or a list comes
\* only with a nil error and then covers every item emitted, so 0 or empty
\* with a nil error means that no item was emitted.
C23_FailureSentinel ==
  Returned =>
    /\ fn # "ChannelFnMap" =>
         ((prod.err # Nil \/ cons.err # Nil) => outcome.err # Nil)
    /\ fn = "ChannelFnCount" =>
         /\ outcome.err # Nil => outcome.count = -1
         /\ outcome.err = Nil =>
              /\ outcome.count = Len(plan.items)
              /\ processed = plan.items
    /\ fn = "ChannelFnList" =>
         /\ outcome.err # Nil => outcome.nilList /\ outcome.list = <<>>
         /\ outcome.err = Nil =>
              /\ ~outcome.nilList
              /\ outcome.list = plan.items
              /\ processed = plan.items

C23_Witness ==
  /\ fn = "ChannelFnCount"
  /\ Returned
  /\ plan.fails
  /\ ~cancelled.caller
  /\ Len(processed) = 1
  /\ outcome.count = -1
  /\ Within(outcome.err, ErrorOf("producer error"))

\* C24 as stated: when getFn returns nil and mapFn never fails,
\* ChannelFnMap has called mapFn once for each emitted item when it returns.
C24_Original ==
  (fn = "ChannelFnMap" /\ Returned /\ prod.err = Nil /\ plan.mapFails = 0) =>
    processed = plan.items

\* C24: mapFn is never called with an item that was not emitted, never twice
\* with the same emitted item, and never out of order; when getFn returns
\* nil, mapFn never fails and ctx is not cancelled, ChannelFnMap returns nil
\* and has by then called mapFn once for each emitted item; and it returns
\* nil only when it has.
C24_MapEachOnce ==
  fn = "ChannelFnMap" =>
    /\ IsPrefix(processed, plan.items)
    /\ (/\ Returned
        /\ prod.err = Nil
        /\ plan.mapFails = 0
        /\ ~cancelled.caller) => (outcome.err = Nil /\ processed = plan.items)
    /\ (Returned /\ outcome.err = Nil) => processed = plan.items

C24_Witness ==
  /\ fn = "ChannelFnMap"
  /\ Returned
  /\ ~cancelled.caller
  /\ Len(plan.items) > ChanCap
  /\ processed = plan.items
  /\ outcome.err = Nil

\* C25: when mapFn returns an error, ChannelFnMap returns an error "map
\* channel failed" that holds "map failed" wrapping the error of mapFn;
\* mapFn has been called with the items up to the failing one and with none
\* after it.
C25_MapFnError ==
  (fn = "ChannelFnMap" /\ plan.mapFails > 0
     /\ Len(processed) >= plan.mapFails) =>
    /\ processed = SubSeq(plan.items, 1, plan.mapFails)
    /\ Returned =>
         /\ outcome.err.msg = "map channel failed"
         /\ Within(outcome.err, Wrap(ErrorOf("map error"), "map failed"))

C25_Witness ==
  /\ fn = "ChannelFnMap"
  /\ Returned
  /\ Len(plan.items) = 2
  /\ plan.mapFails = 1
  /\ processed = <<plan.items[1]>>
  /\ Within(outcome.err, ErrorOf("map error"))

\* C26: when getFn returns an error, ChannelFnMap returns an error "map
\* channel failed" that holds it; and whenever ChannelFnMap has returned,
\* getFn has returned and the consumer loop has ended.
C26_ProducerErrorSettled ==
  (fn = "ChannelFnMap" /\ Returned) =>
    /\ prod.pc = "done"
    /\ cons.pc = "done"
    /\ prod.err # Nil =>
         /\ outcome.err.msg = "map channel failed"
         /\ Within(outcome.err, prod.err)

C26_Witness ==
  /\ fn = "ChannelFnMap"
  /\ Returned
  /\ ~cancelled.caller
  /\ prod.err = ErrorOf("producer error")
  /\ cons.err = Canceled
  /\ outcome.err.msg = "map channel failed"


\* A call that ctx.Err() ended returns an error that holds it.
CancellationReported ==
  (Returned /\ (prod.err = Canceled \/ cons.err = Canceled)) =>
    Within(outcome.err, Canceled)

Prefix(f) ==
  CASE f = "ChannelFnMap" -> "map channel failed"
    [] f = "ChannelFnList" -> "convert channel to list failed"
    [] f = "ChannelFnCount" -> "count channel failed"

ProducerError == ErrorOf("producer error")

Sent == processed \o ch

\* C29: StreamList with a ctx that is not cancelled returns nil after it has
\* sent every element of the list once, in list order, on a buffered and on
\* an unbuffered channel, and the channel is not closed when it returns.
C29_StreamSendsAll ==
  fn = "StreamList" =>
    /\ Sent = SubSeq(plan.items, 1, prod.i - 1)
    /\ ~closed
    /\ (Returned /\ ~cancelled.caller) =>
         /\ outcome.err = Nil
         /\ Sent = plan.items

C29_Witness ==
  /\ fn = "StreamList"
  /\ plan.cap = 0
  /\ Returned
  /\ ~cancelled.caller
  /\ Len(plan.items) = 2
  /\ plan.items[1] # plan.items[2]
  /\ processed = plan.items
  /\ outcome.err = Nil
  /\ ~closed

FirstFailure ==
  IF iter.fails = {} THEN 0
  ELSE CHOOSE k \in iter.fails : \A j \in iter.fails : k <= j

UpTo(n) == [k \in 1..n |-> k]

\* C31: Each with a live context calls fn on the elements in list order,
\* once each, until a call fails; it then returns the error of that call
\* unchanged and calls fn for no later element; it returns nil when no call
\* fails.
C31_EachFailFast ==
  (iter.fn = "Each" /\ ~iter.done) =>
    /\ iter.calls = UpTo(Len(iter.calls))
    /\ iter.returned =>
         IF FirstFailure = 0
         THEN iter.err = Nil /\ iter.calls = UpTo(Len(iter.list))
         ELSE /\ iter.err = fnError(iter.list[FirstFailure])
              /\ iter.calls = UpTo(FirstFailure)

C31_Witness ==
  /\ iter.fn = "Each"
  /\ ~iter.done
  /\ iter.returned
  /\ Len(iter.list) = 2
  /\ iter.fails = {1, 2}
  /\ iter.calls = <<1>>
  /\ iter.err = fnError(iter.list[1])

\* The transformed values of the first n elements of the list, in order.
TransformedUpTo(n) == [k \in 1..n |-> transformed(iter.list[k])]

C34_CancelBetween ==
  iter.fn \in IterFns =>
    /\ iter.done => Len(iter.calls) = iter.seen
    /\ (iter.returned /\ iter.done) =>
         IF ~iter.midcall
         THEN IF iter.seen < Len(iter.list) /\ iter.seen = iter.i - 1
              THEN iter.err = Canceled
              ELSE iter.err = Nil
         ELSE IF iter.seen \in iter.fails
              THEN iter.err = fnError(iter.list[iter.seen])
              ELSE IF iter.seen < Len(iter.list)
                   THEN iter.err = Canceled
                   ELSE iter.err = Nil

C34_Witness ==
  /\ iter.fn = "Each"
  /\ iter.returned
  /\ iter.done
  /\ iter.midcall
  /\ iter.seen = 1
  /\ iter.fails = {2}
  /\ Len(iter.list) = 2
  /\ iter.calls = <<1>>
  /\ iter.err = Canceled

\* ------------------------------------------------------------ Intersect
\* The index of the first occurrence of v in the list.
FirstIndex(list, v) == CHOOSE k \in 1..Len(list) :
                         list[k] = v /\ \A j \in 1..(k - 1) : list[j] # v

\* C33: Intersect(a, b) returns each value that occurs in both a and b once,
\* ordered by its first occurrence in a, and a slice that is empty and not
\* nil when an input is empty or nothing is common.
C33_Intersect ==
  isect.called =>
    LET r == isect.result.list
    IN /\ ~isect.result.isNil
       /\ Range(r) = Range(isect.a) \cap Range(isect.b)
       /\ \A k, l \in 1..Len(r) :
            k < l => FirstIndex(isect.a, r[k]) < FirstIndex(isect.a, r[l])

C33_Witness ==
  /\ isect.called
  /\ isect.a = <<"y", "y">>
  /\ isect.b = <<"x", "y">>
  /\ isect.result = [isNil |-> FALSE, list |-> <<"y">>]

\* -------------------------------------------------------- backpressure
\* C36: in the drain helpers the items emitted and not yet received are
\* those in the channel, never more than its capacity and in the order
\* emitted, so none is discarded; and the producer emits an item only when
\* the channel has room.
C36_Backpressure ==
  /\ [](fn \in DrainFns =>
          /\ Len(ch) <= plan.cap
          /\ (prod.i - 1) - Len(processed) = Len(ch)
          /\ processed \o ch = SubSeq(plan.items, 1, prod.i - 1))
  /\ [][(fn \in DrainFns /\ prod.i' # prod.i) => Len(ch) < plan.cap]_vars

C36_Witness ==
  /\ fn = "ChannelFnList"
  /\ Len(ch) = plan.cap
  /\ prod.pc = "run"
  /\ prod.i <= Len(plan.items)
  /\ cons.pc = "select"
  /\ ~cancelled.derived
  /\ processed = <<>>

\* ---------------------------------------------------- failing UnmarshalJSON
\* C38: a goroutine never waits for the lock or holds it in UnmarshalJSON
\* with input that does not decode, and the step in which UnmarshalJSON
\* returns the decode error leaves the lock, the elements, their order and
\* with them Length() as they were.
C38_FailingUnmarshalJSON ==
  /\ [](\A g \in Procs :
          (gpc[g] # "idle" /\ gcall[g].op = "UnmarshalJSON") =>
            ~jsonUnmarshal(gcall[g].args).err)
  /\ [][\A g \in Procs :
          (/\ gpc[g] = "idle" /\ gpc'[g] = "idle"
           /\ gret[g] # Value("error") /\ gret'[g] = Value("error")) =>
            /\ mux' = mux
            /\ store' = store
            /\ isNil' = isNil
            /\ committed' = committed]_vars

C38_Witness ==
  /\ kind = "SetEqual"
  /\ \E g, h \in Procs :
       /\ gpc[g] = "idle"
       /\ gret[g] = Value("error")
       /\ mux = h
       /\ gpc[h] = "body"
       /\ gcall[h].op = "Add"
       /\ Len(store[1]) = 1

\* ------------------------------------------------------ hash code alone
\* C39: SetHashCode.Contains(e) is true exactly when a stored element has
\* the hash code of e, and Remove(e) leaves exactly the stored elements
\* whose hash code is not that of e, whether or not they equal e.
C39_HashCodeAlone ==
  (kind = "SetHashCode" /\ last.op \in {"Contains", "Remove"}) =>
    LET e == last.args[1]
        before == Members(kind, pre[last.inst])
    IN /\ last.op = "Contains" =>
            ret = (\E x \in before : HashCode(x) = HashCode(e))
       /\ last.op = "Remove" =>
            Members(kind, Data(last.inst)) =
              {x \in before : HashCode(x) # HashCode(e)}

C39_Witness ==
  /\ kind = "SetHashCode"
  /\ last.op = "Remove"
  /\ last.args[1] = [id |-> 1, name |-> "b"]
  /\ [id |-> 1, name |-> "a"] \in Members(kind, pre[last.inst])
  /\ [id |-> 2, name |-> "a"] \in Members(kind, pre[last.inst])
  /\ Members(kind, Data(last.inst)) = {[id |-> 2, name |-> "a"]}

\* ------------------------------------------------------ deadlock freedom
\* C37: the mutex is free whenever no call is in progress, its holder is
\* always inside a method and no goroutine waits for the mutex it holds;
\* and every call of a method that has begun returns.
C37_DeadlockFree ==
  /\ []((\A g \in Procs : gpc[g] = "idle") => mux = 0)
  /\ [](\A g \in Procs : (mux = g) = InCS(g))
  /\ \A g \in Procs : (gpc[g] # "idle") ~> (gpc[g] = "idle")

C37_Witness ==
  /\ gpc[1] = "lock"
  /\ gcall[1].op = "String"
  /\ mux = 2
  /\ gpc[2] = "unlock"
  /\ gcall[2].op = "Remove"

\* ---------------------------------------------- run.CancelOnFirstError
\* C40: every goroutine started by Run sends the result of its function
\* once the function has returned and exits, also after CancelOnFirstError
\* has returned on the first error, and the channel is closed in the end.
C40_Original ==
  /\ \A k \in 1..MaxFuncs :
       (runner.pc[k] = "send") ~> (runner.pc[k] = "done")
  /\ (runner.funcs # <<>>) ~> runner.closed

\* ------------------------------------------------------------- set.Each
\* C35: while Each of a set runs fn, the goroutine of Each holds the lock
\* only inside the method of the set that fn has called, so that call takes
\* the lock; and Each returns.
C35_EachUnlocked ==
  /\ [](\A g \in Procs : InEach(g) => ((mux = g) = InCS(g)))
  /\ (iter.fn = "SetEach") ~> (iter.fn = "SetEach" /\ iter.pc = "returned")

C35_Witness ==
  /\ iter.fn = "SetEach"
  /\ iter.pc = "fn"
  /\ iter.cb = "Remove"
  /\ Len(iter.list) = 2
  /\ iter.i = 3
  /\ gpc[iter.g] = "body"
  /\ mux = iter.g

====
